---- MODULE Spec2Model ----
(***************************************************************************)
(* Search index, session cache, durable store and in-memory registry of   *)
(* the floating-notepad extension, with the reconciliation protocol that  *)
(* ties them together.                                                     *)
(*                                                                         *)
(* Strings are sequences of one-character strings, so that tokenizing and  *)
(* lower-casing are computed as the code computes them.                    *)
(* A Map<string, T> is a function whose DOMAIN is its key set.             *)
(***************************************************************************)
EXTENDS Integers, Sequences, FiniteSets, Bags, TLC

(***************************************************************************)
(* Bounds of the model                                                     *)
(***************************************************************************)
\* how many note ids exist (ids are 1..MaxIds)
MaxIds == 2
\* the clock (Date.now()) runs over 0..MaxNow
MaxNow == 1
\* how many asynchronous operations can be in flight at once
MaxTasks == 2

NoteIds == 1..MaxIds

(***************************************************************************)
(* Characters                                                              *)
(***************************************************************************)
UpperChars == <<"A","B","C","D","E","F","G","H","I","J","K","L","M",
                "N","O","P","Q","R","S","T","U","V","W","X","Y","Z">>
LowerChars == <<"a","b","c","d","e","f","g","h","i","j","k","l","m",
                "n","o","p","q","r","s","t","u","v","w","x","y","z">>
DigitChars == {"0","1","2","3","4","5","6","7","8","9"}
SpaceChars == {" ", "\n", "\t"}

Range(s) == {s[i] : i \in DOMAIN s}

\* String.prototype.toLowerCase, one character
ToLowerTable ==
  [c \in Range(UpperChars) |->
     LowerChars[CHOOSE i \in DOMAIN UpperChars : UpperChars[i] = c]]
ToLowerChar(c) == IF c \in DOMAIN ToLowerTable THEN ToLowerTable[c] ELSE c

\* String.prototype.toLowerCase
ToLowerCase(s) == [i \in DOMAIN s |-> ToLowerChar(s[i])]

\* the regular expression class \w
WordChars == Range(UpperChars) \cup Range(LowerChars) \cup DigitChars \cup {"_"}
IsWordChar(c) == c \in WordChars
\* the regular expression class \s
IsSpaceChar(c) == c \in SpaceChars

\* variant: no string counts as blank
IsBlankNever(s) == FALSE

\* String.prototype.trim() === ''
IsBlank(s) == \A i \in DOMAIN s : IsSpaceChar(s[i])

(***************************************************************************)
(* Maps                                                                    *)
(***************************************************************************)
EmptyMap == [x \in {} |-> x]
Put(m, k, v) == [x \in (DOMAIN m) \cup {k} |-> IF x = k THEN v ELSE m[x]]
Del(m, k) == [x \in (DOMAIN m) \ {k} |-> m[x]]
Has(m, k) == k \in DOMAIN m

(***************************************************************************)
(* SearchManager: tokenizer                                                *)
(***************************************************************************)
StopWords ==
  { <<"t","h","e">>, <<"a","n","d">>, <<"b","u","t">>, <<"f","o","r">>,
    <<"a","r","e">>, <<"w","i","t","h">>, <<"t","h","i","s">>,
    <<"t","h","a","t">>, <<"f","r","o","m">>, <<"t","h","e","y">>,
    <<"h","a","v","e">>, <<"b","e","e","n">>, <<"w","i","l","l">>,
    <<"w","o","u","l","d">>, <<"c","o","u","l","d">>,
    <<"s","h","o","u","l","d">> }

isStopWord(word) == word \in StopWords

\* .replace(/[^\w\s]/g, ' ')
ReplacePunctuation(s) ==
  [i \in DOMAIN s |-> IF IsWordChar(s[i]) \/ IsSpaceChar(s[i]) THEN s[i] ELSE " "]

\* .split(/\s+/): the pieces between maximal runs of whitespace; a leading or
\* trailing run yields an empty piece, as in JavaScript
RECURSIVE SplitFrom(_, _, _, _)
SplitFrom(s, i, cur, inSpace) ==
  IF i > Len(s) THEN <<cur>>
  ELSE IF IsSpaceChar(s[i])
       THEN IF inSpace THEN SplitFrom(s, i + 1, cur, TRUE)
            ELSE <<cur>> \o SplitFrom(s, i + 1, <<>>, TRUE)
       ELSE SplitFrom(s, i + 1, Append(cur, s[i]), FALSE)

SplitWhitespace(s) == SplitFrom(s, 1, <<>>, FALSE)

\* variant: short words are kept
tokenizeKeepingShort(text) ==
  LET pieces == SplitWhitespace(ReplacePunctuation(ToLowerCase(text)))
      long == SelectSeq(pieces, LAMBDA w : Len(w) > 0)
  IN  SelectSeq(long, LAMBDA w : ~isStopWord(w))

tokenize(text) ==
  LET pieces == SplitWhitespace(ReplacePunctuation(ToLowerCase(text)))
      long == SelectSeq(pieces, LAMBDA w : Len(w) > 2)
  IN  SelectSeq(long, LAMBDA w : ~isStopWord(w))

(***************************************************************************)
(* SearchManager: the index                                                *)
(* idx = [notes, searchIndex, tagIndex]                                    *)
(***************************************************************************)
EmptyIndex == [notes |-> EmptyMap, searchIndex |-> EmptyMap, tagIndex |-> EmptyMap]

\* forEach entry: delete the id from its set, delete the entry when the set is empty
\* variant: a posting set emptied by the removal stays in the index
PurgeIdKeepingEmpty(index, id) == [k \in DOMAIN index |-> index[k] \ {id}]

PurgeId(index, id) ==
  LET keep == {k \in DOMAIN index : index[k] \ {id} # {}}
  IN  [k \in keep |-> index[k] \ {id}]

\* forEach key: create the set when missing, add the id
AddPostings(index, keys, id) ==
  [k \in (DOMAIN index) \cup keys |->
     IF k \in keys
     THEN (IF k \in DOMAIN index THEN index[k] ELSE {}) \cup {id}
     ELSE index[k]]

\* variant: every word the note is posted under is deleted with all its postings
removeFromSearchIndexWholeWord(searchIndex, note) ==
  LET keep == {k \in DOMAIN searchIndex : note.id \notin searchIndex[k]}
  IN  [k \in keep |-> searchIndex[k]]

removeFromSearchIndex(searchIndex, note) == PurgeId(searchIndex, note.id)

\* variant: the tag postings of a removed note are left behind
removeFromTagIndexKept(tagIndex, note) == tagIndex

removeFromTagIndex(tagIndex, note) == PurgeId(tagIndex, note.id)

updateSearchIndex(searchIndex, note) ==
  AddPostings(removeFromSearchIndex(searchIndex, note), Range(tokenize(note.content)), note.id)

updateTagIndex(tagIndex, note) ==
  AddPostings(removeFromTagIndex(tagIndex, note),
              {ToLowerCase(note.tags[i]) : i \in DOMAIN note.tags}, note.id)

indexNote(idx, note) ==
  [notes |-> Put(idx.notes, note.id, note),
   searchIndex |-> updateSearchIndex(idx.searchIndex, note),
   tagIndex |-> updateTagIndex(idx.tagIndex, note)]

removeNote(idx, noteId) ==
  IF Has(idx.notes, noteId)
  THEN [notes |-> Del(idx.notes, noteId),
        searchIndex |-> removeFromSearchIndex(idx.searchIndex, idx.notes[noteId]),
        tagIndex |-> removeFromTagIndex(idx.tagIndex, idx.notes[noteId])]
  ELSE idx

\* variant: nothing is cleared
clearSearchIndexKept(idx) == idx

\* SearchIntegration.clearSearchIndex, and the same three clear() calls inlined
\* in reloadSearchIndexFromStorage and forceRefreshWithLocalStorage
clearSearchIndex(idx) == EmptyIndex


(***************************************************************************)
(* SearchManager: search                                                   *)
(* options = [query, searchContent, searchTags, caseSensitive, exactMatch] *)
(* A result is the note's fields with matchType and relevanceScore (type   *)
(* is always 'note' and title is computed from content, so both are left   *)
(* out).  A relevanceScore is the exact rational [num, den] of the value   *)
(* the code computes in floating point.                                     *)
(* Maps and Sets are iterated in one fixed order here; the code iterates   *)
(* them in insertion order, which the index of this model does not record. *)
(***************************************************************************)
\* String.prototype.includes
Includes(s, sub) ==
  \E i \in 0..(Len(s) - Len(sub)) : SubSeq(s, i + 1, i + Len(sub)) = sub

\* String.prototype.startsWith
StartsWith(s, sub) == Len(sub) <= Len(s) /\ SubSeq(s, 1, Len(sub)) = sub

\* .replace(/^#+/, '')
RECURSIVE StripHashes(_)
StripHashes(s) == IF s # <<>> /\ Head(s) = "#" THEN StripHashes(Tail(s)) ELSE s

\* the elements of a finite set, one after the other
RECURSIVE SeqOf(_)
SeqOf(S) ==
  IF S = {} THEN <<>>
  ELSE LET x == CHOOSE y \in S : TRUE IN <<x>> \o SeqOf(S \ {x})

Rat(n, d) == [num |-> n, den |-> d]
RatLess(a, b) == a.num * b.den < b.num * a.den
RatEq(a, b) == a.num * b.den = b.num * a.den
RatMax(a, b) == IF RatLess(a, b) THEN b ELSE a

SearchOptions(query, searchContent, searchTags, caseSensitive, exactMatch) ==
  [query |-> query, searchContent |-> searchContent, searchTags |-> searchTags,
   caseSensitive |-> caseSensitive, exactMatch |-> exactMatch]

SearchResult(note, matchType, relevanceScore) ==
  [id |-> note.id, content |-> note.content, tags |-> note.tags,
   lastModified |-> note.lastModified,
   matchType |-> matchType, relevanceScore |-> relevanceScore]

calculateTagRelevance(tag, query, exactMatch) ==
  IF exactMatch /\ tag = query THEN Rat(10, 10)
  ELSE IF StartsWith(tag, query) THEN Rat(9, 10)
  ELSE IF Includes(tag, query) THEN Rat(7, 10)
  ELSE Rat(5, 10)

calculateContentRelevance(content, query, matchCount, totalQueryWords) ==
  LET contentLength == Len(content)
      queryLength == Len(query)
      phrase == Includes(ToLowerCase(content), ToLowerCase(query))
      base == Rat(10 * matchCount + (IF phrase THEN 3 * totalQueryWords ELSE 0),
                  10 * totalQueryWords)
      byLength == IF contentLength > 500
                  THEN Rat(base.num * 500, base.den * contentLength)
                  ELSE base
      byQuery == IF queryLength > 0 /\ contentLength > 0 /\ 10 * queryLength < contentLength
                 THEN Rat(byLength.num * 10 * queryLength, byLength.den * contentLength)
                 ELSE byLength
  IN  IF RatLess(Rat(1, 1), byQuery) THEN Rat(1, 1) ELSE byQuery

\* the results of one matching tag: one per id of its posting set that notes holds
TagResults(idx, tag, queryTag, exactMatch) ==
  LET ids == SeqOf({id \in idx.tagIndex[tag] : Has(idx.notes, id)})
  IN  [k \in 1..Len(ids) |->
         SearchResult(idx.notes[ids[k]], "tag",
                      calculateTagRelevance(tag, queryTag, exactMatch))]

RECURSIVE TagResultsOfAll(_, _, _, _)
TagResultsOfAll(idx, tagSeq, queryTag, exactMatch) ==
  IF tagSeq = <<>> THEN <<>>
  ELSE TagResults(idx, Head(tagSeq), queryTag, exactMatch)
         \o TagResultsOfAll(idx, Tail(tagSeq), queryTag, exactMatch)

searchByTags(idx, query, options) ==
  LET queryTag == ToLowerCase(StripHashes(query))
      matching == {tag \in DOMAIN idx.tagIndex :
                     IF options.exactMatch THEN tag = queryTag
                     ELSE Includes(tag, queryTag)}
  IN  TagResultsOfAll(idx, SeqOf(matching), queryTag, options.exactMatch)

\* variant: every candidate is returned, whatever its score
searchByContentNoFloor(idx, query, options, excludeNoteIds) ==
  LET queryWords == tokenize(IF options.caseSensitive THEN query ELSE ToLowerCase(query))
      posted(word) == IF word \in DOMAIN idx.searchIndex THEN idx.searchIndex[word] ELSE {}
      matchCount(id) == Cardinality({k \in DOMAIN queryWords : id \in posted(queryWords[k])})
      candidateNotes == {id \in UNION {posted(queryWords[k]) : k \in DOMAIN queryWords} :
                           id \notin excludeNoteIds}
      score(id) == calculateContentRelevance(idx.notes[id].content, query,
                                             matchCount(id), Len(queryWords))
      ids == SeqOf({id \in candidateNotes : Has(idx.notes, id)})
  IN  IF Len(queryWords) = 0 THEN <<>>
      ELSE [k \in 1..Len(ids) |-> SearchResult(idx.notes[ids[k]], "content", score(ids[k]))]

searchByContent(idx, query, options, excludeNoteIds) ==
  LET queryWords == tokenize(IF options.caseSensitive THEN query ELSE ToLowerCase(query))
      posted(word) == IF word \in DOMAIN idx.searchIndex THEN idx.searchIndex[word] ELSE {}
      matchCount(id) == Cardinality({k \in DOMAIN queryWords : id \in posted(queryWords[k])})
      candidateNotes == {id \in UNION {posted(queryWords[k]) : k \in DOMAIN queryWords} :
                           id \notin excludeNoteIds}
      score(id) == calculateContentRelevance(idx.notes[id].content, query,
                                             matchCount(id), Len(queryWords))
      kept == {id \in candidateNotes :
                 Has(idx.notes, id) /\ RatLess(Rat(1, 10), score(id))}
      ids == SeqOf(kept)
  IN  IF Len(queryWords) = 0 THEN <<>>
      ELSE [k \in 1..Len(ids) |-> SearchResult(idx.notes[ids[k]], "content", score(ids[k]))]

\* results.find(r => r.id === result.id): merge into the first, or push
MergeResult(results, result) ==
  IF \E k \in DOMAIN results : results[k].id = result.id
  THEN LET first == CHOOSE k \in DOMAIN results :
                      /\ results[k].id = result.id
                      /\ \A j \in 1..(k - 1) : results[j].id # result.id
       IN  [results EXCEPT ![first] =
              [@ EXCEPT !.matchType = "both",
                        !.relevanceScore = RatMax(@, result.relevanceScore)]]
  ELSE Append(results, result)

RECURSIVE MergeResults(_, _)
MergeResults(results, more) ==
  IF more = <<>> THEN results
  ELSE MergeResults(MergeResult(results, Head(more)), Tail(more))

\* variant: equal scores are ordered by lastModified ascending
SortsBeforeOldestFirst(a, b) ==
  IF ~RatEq(a.relevanceScore, b.relevanceScore)
  THEN RatLess(b.relevanceScore, a.relevanceScore)
  ELSE a.lastModified < b.lastModified

\* the comparator of results.sort: a sorts before b
SortsBefore(a, b) ==
  IF ~RatEq(a.relevanceScore, b.relevanceScore)
  THEN RatLess(b.relevanceScore, a.relevanceScore)
  ELSE a.lastModified > b.lastModified

\* Array.prototype.sort is stable: a result goes before the first it sorts before
InsertSorted(sorted, r) ==
  LET at == IF \E k \in DOMAIN sorted : SortsBefore(r, sorted[k])
            THEN CHOOSE k \in DOMAIN sorted :
                   /\ SortsBefore(r, sorted[k])
                   /\ \A j \in 1..(k - 1) : ~SortsBefore(r, sorted[j])
            ELSE Len(sorted) + 1
  IN  SubSeq(sorted, 1, at - 1) \o <<r>> \o SubSeq(sorted, at, Len(sorted))

RECURSIVE SortResults(_, _)
SortResults(sorted, rest) ==
  IF rest = <<>> THEN sorted
  ELSE SortResults(InsertSorted(sorted, Head(rest)), Tail(rest))

search(idx, options) ==
  IF IsBlank(options.query) THEN <<>>
  ELSE LET query == IF options.caseSensitive THEN options.query
                    ELSE ToLowerCase(options.query)
           tagResults == IF options.searchTags THEN searchByTags(idx, query, options)
                         ELSE <<>>
           processedNotes == {tagResults[k].id : k \in DOMAIN tagResults}
           contentResults == IF options.searchContent
                             THEN searchByContent(idx, query, options, processedNotes)
                             ELSE <<>>
       IN  SortResults(<<>>, MergeResults(tagResults, contentResults))

\* getNotesByTag: the notes of the posting set of the lower-cased tag
getNotesByTag(idx, tag) ==
  LET key == ToLowerCase(tag)
      noteIds == IF key \in DOMAIN idx.tagIndex THEN idx.tagIndex[key] ELSE {}
  IN  {idx.notes[id] : id \in {i \in noteIds : Has(idx.notes, i)}}

(***************************************************************************)
(* Documents                                                               *)
(* NotepadData = {id, content, tags, lastModified}; position and state are *)
(* presentation fields that every operation below copies unchanged and no  *)
(* operation below reads, so they are left out of the record.  A missing   *)
(* tags field (undefined) reads as [] everywhere it is read (tags?.forEach,*)
(* tags || []), so it is the empty sequence.                               *)
(***************************************************************************)
Milk == <<"m","i","l","k">>
Tea == <<"T","e","a","!">>
\* what the user can type into a notepad's text area
ContentChoices == {<<>>, Milk}

NotepadData(id, content, tags, lastModified) ==
  [id |-> id, content |-> content, tags |-> tags, lastModified |-> lastModified]

(***************************************************************************)
(* FirebaseNotepadService: what a notepad becomes in Firestore and back    *)
(***************************************************************************)
\* saveNotepad writes content, position, state, lastModified (no tags) under the id
ToFirestore(notepadData) ==
  [content |-> notepadData.content, lastModified |-> notepadData.lastModified]

\* getAllNotepads rebuilds {id, content, position, state, lastModified}
FromFirestore(id, data) == NotepadData(id, data.content, <<>>, data.lastModified)

getAllNotepads(store) == [id \in DOMAIN store |-> FromFirestore(id, store[id])]

(***************************************************************************)
(* SessionNotesStorage (localStorage, JSON of the whole map)               *)
(***************************************************************************)
\* variant: the write to localStorage is dropped
saveNoteDropped(sessionNotes, noteData) == sessionNotes

saveNote(sessionNotes, noteData) == Put(sessionNotes, noteData.id, noteData)

deleteNote(sessionNotes, noteId) == Del(sessionNotes, noteId)

(***************************************************************************)
(* StateManager with the hooks of SearchIntegration and SearchUI installed *)
(* st = [registry, idx, session, uiText]                                   *)
(***************************************************************************)
\* Notepad.handleStateChange for a non-null record: the text area follows the
\* registry (this.data is the registry's record from then on)
notifyListeners(uiText, id, data) ==
  IF id \in DOMAIN uiText THEN [uiText EXCEPT ![id] = data.content] ELSE uiText

\* StateManager.createNotepad: defaults overlaid by initialData
createNotepad(id, initialData, t) ==
  NotepadData(id,
              IF "content" \in DOMAIN initialData THEN initialData.content ELSE <<>>,
              IF "tags" \in DOMAIN initialData THEN initialData.tags ELSE <<>>,
              t)

\* StateManager.updateNotepad: {...currentData, ...data, lastModified: Date.now()}
updateNotepad(currentData, data, t) ==
  [f \in DOMAIN currentData |->
     IF f = "lastModified" THEN t
     ELSE IF f \in DOMAIN data THEN data[f] ELSE currentData[f]]

\* stateManager.createNotepad as replaced by setupStateManagerTracking
hookedCreateNotepad(st, id, initialData, t) ==
  LET result == createNotepad(id, initialData, t)
  IN  [registry |-> Put(st.registry, id, result),
       idx |-> indexNote(st.idx, result),
       session |-> saveNote(st.session, result),
       uiText |-> notifyListeners(st.uiText, id, result)]

\* variant: updateNotepad left unhooked by setupStateManagerTracking (SearchUI's
\* wrapper still indexes the result)
hookedUpdateNotepadUntracked(st, id, updates, t) ==
  IF ~Has(st.registry, id) THEN st
  ELSE LET result == updateNotepad(st.registry[id], updates, t)
       IN  [registry |-> Put(st.registry, id, result),
            idx |-> indexNote(st.idx, result),
            session |-> st.session,
            uiText |-> notifyListeners(st.uiText, id, result)]

\* stateManager.updateNotepad as replaced by setupStateManagerTracking and then
\* wrapped again by SearchUI.setupStateListeners (which indexes the result again)
hookedUpdateNotepad(st, id, updates, t) ==
  IF ~Has(st.registry, id) THEN st
  ELSE LET result == updateNotepad(st.registry[id], updates, t)
       IN  [registry |-> Put(st.registry, id, result),
            idx |-> indexNote(indexNote(st.idx, result), result),
            session |-> saveNote(st.session, result),
            uiText |-> notifyListeners(st.uiText, id, result)]

\* stateManager.deleteNotepad as wrapped by SearchUI.setupStateListeners
hookedDeleteNotepad(st, id) ==
  [registry |-> Del(st.registry, id),
   idx |-> removeNote(st.idx, id),
   session |-> st.session,
   uiText |-> st.uiText]

(***************************************************************************)
(* Reconciliation                                                          *)
(***************************************************************************)
\* variant: the session notes first, then every durable note over them
combineNotesDurableOver(firebaseNotes, sessionNotes) ==
  [id \in (DOMAIN firebaseNotes) \cup (DOMAIN sessionNotes) |->
     IF id \in DOMAIN firebaseNotes THEN firebaseNotes[id] ELSE sessionNotes[id]]

\* combinedNotesMap: the durable notes first, then every session note over them
combineNotes(firebaseNotes, sessionNotes) ==
  [id \in (DOMAIN firebaseNotes) \cup (DOMAIN sessionNotes) |->
     IF id \in DOMAIN sessionNotes THEN sessionNotes[id] ELSE firebaseNotes[id]]

Min(S) == CHOOSE x \in S : \A y \in S : x <= y

\* allNotepads.forEach(notepad => searchManager.indexNote(notepad))
RECURSIVE indexAll(_, _, _)
indexAll(idx, all, ids) ==
  IF ids = {} THEN idx
  ELSE indexAll(indexNote(idx, all[Min(ids)]), all, ids \ {Min(ids)})

\* if (!stateManager.getNotepad(id)) stateManager.createNotepad(id, {content, position, state, tags})
materialize(st, notepad, t) ==
  IF Has(st.registry, notepad.id) THEN st
  ELSE hookedCreateNotepad(st, notepad.id,
         [content |-> notepad.content, tags |-> notepad.tags], t)

RECURSIVE materializeAll(_, _, _, _)
materializeAll(st, all, ids, t) ==
  IF ids = {} THEN st
  ELSE materializeAll(materialize(st, all[Min(ids)], t), all, ids \ {Min(ids)}, t)

\* the forEach of reloadSearchIndexFromStorage: index, then materialize, per note
RECURSIVE indexAndMaterializeAll(_, _, _, _)
indexAndMaterializeAll(st, all, ids, t) ==
  IF ids = {} THEN st
  ELSE LET n == all[Min(ids)]
           indexed == [st EXCEPT !.idx = indexNote(st.idx, n)]
       IN  indexAndMaterializeAll(materialize(indexed, n, t), all, ids \ {Min(ids)}, t)

\* loadNotesIntoSearchIndex after its await
loadNotesBody(st, notepadMap, t) ==
  LET all == combineNotes(notepadMap, st.session)
      cleared == [st EXCEPT !.idx = clearSearchIndex(st.idx)]
      indexed == [cleared EXCEPT !.idx = indexAll(cleared.idx, all, DOMAIN all)]
  IN  materializeAll(indexed, all, DOMAIN all, t)

\* reloadSearchIndexFromStorage after its await
reloadBody(st, notepadMap, t) ==
  LET all == combineNotes(notepadMap, st.session)
  IN  indexAndMaterializeAll(st, all, DOMAIN all, t)

\* forceRefreshWithLocalStorage after its await
forceRefreshBody(st, notepadMap, t) ==
  LET all == combineNotes(notepadMap, st.session)
  IN  [st EXCEPT !.idx = indexAll(st.idx, all, DOMAIN all)]


(***************************************************************************)
(* State                                                                   *)
(***************************************************************************)
VARIABLES
  now,         \* Date.now()
  registry,    \* StateManager.notepads
  idx,         \* SearchManager: notes, searchIndex, tagIndex
  session,     \* localStorage['mindweaver-session-notes']
  durable,     \* Firestore users/{uid}/notepads
  tasks,       \* bag of the asynchronous operations in flight
  open,        \* ids of the Notepad objects not yet destroyed
  uiText,      \* the text area of every Notepad object constructed, by id
  inputTimer,  \* ids whose NotepadUI input debounce timer is armed
  used,        \* ids given out so far
  removed,     \* history: ids passed to stateManager.deleteNotepad
  lastLocal,   \* history: id -> content of its latest createNotepad/updateNotepad by the user
  last,        \* history: the step just taken
  second,      \* the SearchManager of a second SearchIntegration, NoIndex while there is none
  saveDebounceTimers, \* StorageService.saveDebounceTimers: id -> timer handle
  timeouts,    \* the window's timers set by debouncedSave and not yet fired or cleared
  nextTimer,   \* the handle the next window.setTimeout returns
  promises,    \* the promises debouncedSave returned, by timer handle: how each stands
  burst,       \* history: id -> the calls of debouncedSave since the previous call's timer fired
  currentUser, \* authBridge.currentUser
  firestore,   \* users/{uid}/notepads of every user, where users change (else durable)
  authListener,\* handleAuthChange of initializeSearchIndex is subscribed
  startupTimer,\* the one-second timer of initializeSearchIndex is pending
  author       \* history: id -> the user signed in when the note was created

vars == <<now, registry, idx, session, durable, tasks, open, uiText,
          inputTimer, used, removed, lastLocal, last, second,
          saveDebounceTimers, timeouts, nextTimer, promises, burst,
          currentUser, firestore, authListener, startupTimer, author>>

authVars == <<currentUser, firestore, authListener, startupTimer, author>>

NoUser == "signed out"
Users == {"A", "B"}

\* one user signed in from before the SearchIntegration is constructed: nothing
\* listens to authBridge, and durable is that user's collection
SingleUser ==
  /\ currentUser = "A"
  /\ firestore = [u \in Users |-> EmptyMap]
  /\ authListener = FALSE
  /\ startupTimer = FALSE
  /\ author = EmptyMap

debounceVars == <<saveDebounceTimers, timeouts, nextTimer, promises, burst>>

\* StorageService as constructed: no timer set
NoTimers ==
  /\ saveDebounceTimers = EmptyMap
  /\ timeouts = {}
  /\ nextTimer = 1
  /\ promises = EmptyMap
  /\ burst = EmptyMap

NoIndex == [notes |-> "none"]

NoDoc == [id |-> 0]

Task(kind, pc, id, doc, snap, caller) ==
  [kind |-> kind, pc |-> pc, id |-> id, doc |-> doc, snap |-> snap, caller |-> caller]

InFlight == BagToSet(tasks)
HasRoom == BagCardinality(tasks) < MaxTasks
Without(tk) == tasks (-) SetToBag({tk})
With(bag, tk) == bag (+) SetToBag({tk})

Step(op, id) == [op |-> op, id |-> id, D |-> EmptyMap, S |-> EmptyMap]
RunStep(op, D, S) == [op |-> op, id |-> 0, D |-> D, S |-> S]
Quiet == Step("other", 0)

St == [registry |-> registry, idx |-> idx, session |-> session, uiText |-> uiText]

SetSt(st) ==
  /\ registry' = st.registry
  /\ idx' = st.idx
  /\ session' = st.session
  /\ uiText' = st.uiText

\* the durable store the session starts from: one note of an earlier session
InitDurable == (1 :> [content |-> Tea, lastModified |-> 0])

\* The state after the content script has constructed SearchIntegration for a
\* signed-in user: hooks installed, index empty, loadNotesIntoSearchIndex awaiting
\* storageService.loadAllNotepads().
Init ==
  /\ now = 0
  /\ registry = EmptyMap
  /\ idx = EmptyIndex
  /\ session = EmptyMap
  /\ durable = InitDurable
  /\ tasks = SetToBag({Task("startup", "load", 0, NoDoc, EmptyMap, "init")})
  /\ open = {}
  /\ uiText = EmptyMap
  /\ inputTimer = {}
  /\ used = DOMAIN durable
  /\ removed = {}
  /\ lastLocal = EmptyMap
  /\ last = Quiet
  /\ second = NoIndex
  /\ NoTimers
  /\ SingleUser

(***************************************************************************)
(* Environment                                                             *)
(***************************************************************************)
Tick ==
  /\ now < MaxNow
  /\ now' = now + 1
  /\ last' = Quiet
  /\ UNCHANGED <<registry, idx, session, durable, tasks, open, uiText,
                 inputTimer, used, removed, lastLocal>>
  /\ UNCHANGED second
  /\ UNCHANGED debounceVars
  /\ UNCHANGED authVars

(***************************************************************************)
(* Notepad                                                                 *)
(***************************************************************************)
\* content.ts createNewNotepad -> new Notepad({initialContent: ''}): a fresh id,
\* stateManager.createNotepad (hooked), the text area shows the content
CreateNewNotepad ==
  /\ NoteIds \ used # {}
  /\ LET id == Min(NoteIds \ used)
         st == hookedCreateNotepad(St, id, [content |-> <<>>], now)
     IN  /\ SetSt([st EXCEPT !.uiText = Put(st.uiText, id, st.registry[id].content)])
         /\ open' = open \cup {id}
         /\ used' = used \cup {id}
         /\ lastLocal' = Put(lastLocal, id, <<>>)
         /\ last' = Step("create", id)
  /\ UNCHANGED <<now, durable, tasks, inputTimer, removed>>
  /\ UNCHANGED second
  /\ UNCHANGED debounceVars
  /\ UNCHANGED authVars

\* the user types: the input listener re-arms the debounce timer
TypeText(id, text) ==
  /\ id \in open
  /\ uiText[id] # text
  /\ uiText' = [uiText EXCEPT ![id] = text]
  /\ inputTimer' = inputTimer \cup {id}
  /\ last' = Quiet
  /\ UNCHANGED <<now, registry, idx, session, durable, tasks, open,
                 used, removed, lastLocal>>
  /\ UNCHANGED second
  /\ UNCHANGED debounceVars
  /\ UNCHANGED authVars

\* the debounce timer fires: Notepad.handleContentChange(textarea.value) up to its
\* await of storageService.saveNotepad (hooked; the Firestore write is then in flight)
InputTimerFires(id) ==
  /\ id \in inputTimer
  /\ inputTimer' = inputTimer \ {id}
  /\ IF Has(registry, id) /\ registry[id].content # uiText[id]
     THEN /\ HasRoom
          /\ LET st == hookedUpdateNotepad(St, id, [content |-> uiText[id]], now)
             IN  /\ SetSt(st)
                 /\ tasks' = With(tasks, Task("save", "write", id, st.registry[id], EmptyMap, "edit"))
                 /\ lastLocal' = Put(lastLocal, id, uiText[id])
                 /\ last' = Step("update", id)
     ELSE /\ last' = Quiet
          /\ UNCHANGED <<registry, idx, session, uiText, tasks, lastLocal>>
  /\ UNCHANGED <<now, durable, open, used, removed>>
  /\ UNCHANGED second
  /\ UNCHANGED debounceVars
  /\ UNCHANGED authVars

\* the minimize button (handleCollapse and handleDragEnd have the same shape):
\* stateManager.updateNotepad with a presentation field only (hooked), then
\* storageService.saveNotepad, not awaited
HandleMinimize(id) ==
  /\ id \in open
  /\ Has(registry, id)
  /\ HasRoom
  /\ LET st == hookedUpdateNotepad(St, id, EmptyMap, now)
     IN  /\ SetSt(st)
         /\ tasks' = With(tasks, Task("save", "write", id, st.registry[id], EmptyMap, "edit"))
         /\ last' = Step("update", id)
  /\ UNCHANGED <<now, durable, open, inputTimer, used, removed, lastLocal>>
  /\ UNCHANGED second
  /\ UNCHANGED debounceVars
  /\ UNCHANGED authVars

\* Notepad.destroy of a notepad not yet destroyed; `rest` are the other operations
\* in flight.  An empty notepad is deleted from Firestore (not awaited); the
\* registry entry is always deleted through stateManager.deleteNotepad (hooked)
DestroyIn(st, id, rest) ==
  /\ open' = open \ {id}
  /\ SetSt(hookedDeleteNotepad(st, id))
  /\ removed' = removed \cup {id}
  /\ tasks' = IF ~Has(st.registry, id) \/ IsBlank(st.registry[id].content)
              THEN With(rest, Task("delete", "write", id, NoDoc, EmptyMap, "destroy"))
              ELSE rest
  /\ last' = Step("destroy", id)

\* the continuation of handleClose after its save settled: this.destroy()
CloseContinues(st, id, rest) ==
  IF id \in open
  THEN DestroyIn(st, id, rest)
  ELSE /\ SetSt(st)
       /\ tasks' = rest
       /\ last' = Quiet
       /\ UNCHANGED <<open, removed>>

\* the close button: Notepad.handleClose up to its await, or through destroy
HandleClose(id) ==
  /\ id \in open
  /\ HasRoom
  /\ IF ~IsBlank(uiText[id])
     THEN /\ tasks' = With(tasks, Task("save", "write", id, registry[id], EmptyMap, "close"))
          /\ last' = Quiet
          /\ UNCHANGED <<registry, idx, session, uiText, open, removed>>
     ELSE DestroyIn(St, id, tasks)
  /\ UNCHANGED <<now, durable, inputTimer, used, lastLocal>>
  /\ UNCHANGED second
  /\ UNCHANGED debounceVars
  /\ UNCHANGED authVars

(***************************************************************************)
(* Sidebar                                                                 *)
(***************************************************************************)
\* the Delete button of a listed note: DOMSidebar.deleteNotepad up to its await
SidebarDelete(id) ==
  /\ Has(durable, id)
  /\ HasRoom
  /\ tasks' = With(tasks, Task("delete", "write", id, NoDoc, EmptyMap, "sidebar"))
  /\ last' = Quiet
  /\ UNCHANGED <<now, registry, idx, session, durable, open, uiText,
                 inputTimer, used, removed, lastLocal>>
  /\ UNCHANGED second
  /\ UNCHANGED debounceVars
  /\ UNCHANGED authVars

\* SearchIntegration.forceRefreshWithLocalStorage up to its await
ForceRefresh ==
  /\ HasRoom
  /\ idx' = clearSearchIndex(idx)
  /\ tasks' = With(tasks, Task("force", "load", 0, NoDoc, EmptyMap, "sidebar"))
  /\ last' = Quiet
  /\ UNCHANGED <<now, registry, session, durable, open, uiText,
                 inputTimer, used, removed, lastLocal>>
  /\ UNCHANGED second
  /\ UNCHANGED debounceVars
  /\ UNCHANGED authVars

(***************************************************************************)
(* Asynchronous steps: Firestore and the continuations of the awaits       *)
(***************************************************************************)
\* setDoc of FirebaseNotepadService.saveNotepad takes effect at the server
WriteLands(tk) ==
  /\ tk.kind = "save" /\ tk.pc = "write"
  /\ durable' = Put(durable, tk.id, ToFirestore(tk.doc))
  /\ tasks' = With(Without(tk), [tk EXCEPT !.pc = "ack"])
  /\ last' = Quiet
  /\ UNCHANGED <<now, registry, idx, session, open, uiText,
                 inputTimer, used, removed, lastLocal>>
  /\ UNCHANGED second
  /\ UNCHANGED debounceVars
  /\ UNCHANGED authVars

\* setDoc fails: StorageService.saveNotepad throws, the hooked saveNotepad rejects
\* before its reload; handleContentChange reports the error, handleClose destroys
WriteFails(tk) ==
  /\ tk.kind = "save" /\ tk.pc = "write"
  /\ IF tk.caller = "close"
     THEN CloseContinues(St, tk.id, Without(tk))
     ELSE /\ tasks' = Without(tk)
          /\ last' = Quiet
          /\ UNCHANGED <<registry, idx, session, uiText, open, removed>>
  /\ UNCHANGED <<now, durable, inputTimer, used, lastLocal>>
  /\ UNCHANGED second
  /\ UNCHANGED debounceVars
  /\ UNCHANGED authVars

\* originalSaveNotepad resolved: the hooked saveNotepad calls
\* reloadSearchIndexFromStorage, which clears the index and awaits loadAllNotepads
SaveResumes(tk) ==
  /\ tk.kind = "save" /\ tk.pc = "ack"
  /\ idx' = clearSearchIndex(idx)
  /\ tasks' = With(Without(tk), [tk EXCEPT !.pc = "load"])
  /\ last' = Quiet
  /\ UNCHANGED <<now, registry, session, durable, open, uiText,
                 inputTimer, used, removed, lastLocal>>
  /\ UNCHANGED second
  /\ UNCHANGED debounceVars
  /\ UNCHANGED authVars

\* getDocs of FirebaseNotepadService.getAllNotepads reads the collection
LoadReturns(tk) ==
  /\ tk.kind \in {"save", "startup", "force"} /\ tk.pc = "load"
  /\ tasks' = With(Without(tk), [tk EXCEPT !.pc = "loaded", !.snap = getAllNotepads(durable)])
  /\ last' = Quiet
  /\ UNCHANGED <<now, registry, idx, session, durable, open, uiText,
                 inputTimer, used, removed, lastLocal>>
  /\ UNCHANGED second
  /\ UNCHANGED debounceVars
  /\ UNCHANGED authVars

\* getDocs fails: loadAllNotepads throws.  loadNotesIntoSearchIndex arms its 3 s
\* retry; reloadSearchIndexFromStorage and forceRefreshWithLocalStorage log it,
\* and the hooked saveNotepad then resolves to its caller
LoadFails(tk) ==
  /\ tk.kind \in {"save", "startup", "force"} /\ tk.pc = "load"
  /\ IF tk.kind = "startup"
     THEN /\ tasks' = With(Without(tk), [tk EXCEPT !.pc = "retry"])
          /\ last' = Quiet
          /\ UNCHANGED <<registry, idx, session, uiText, open, removed>>
     ELSE IF tk.kind = "save" /\ tk.caller = "close"
     THEN CloseContinues(St, tk.id, Without(tk))
     ELSE /\ tasks' = Without(tk)
          /\ last' = Quiet
          /\ UNCHANGED <<registry, idx, session, uiText, open, removed>>
  /\ UNCHANGED <<now, durable, inputTimer, used, lastLocal>>
  /\ UNCHANGED second
  /\ UNCHANGED debounceVars
  /\ UNCHANGED authVars

\* the retry timer of loadNotesIntoSearchIndex fires
RetryFires(tk) ==
  /\ tk.kind = "startup" /\ tk.pc = "retry"
  /\ tasks' = With(Without(tk), [tk EXCEPT !.pc = "load"])
  /\ last' = Quiet
  /\ UNCHANGED <<now, registry, idx, session, durable, open, uiText,
                 inputTimer, used, removed, lastLocal>>
  /\ UNCHANGED second
  /\ UNCHANGED debounceVars
  /\ UNCHANGED authVars

\* loadNotesIntoSearchIndex resumes with the snapshot
StartupCompletes(tk) ==
  /\ tk.kind = "startup" /\ tk.pc = "loaded"
  /\ SetSt(loadNotesBody(St, tk.snap, now))
  /\ tasks' = Without(tk)
  /\ last' = RunStep("startupDone", tk.snap, session)
  /\ UNCHANGED <<now, durable, open, inputTimer, used, removed, lastLocal>>
  /\ UNCHANGED second
  /\ UNCHANGED debounceVars
  /\ UNCHANGED authVars

\* reloadSearchIndexFromStorage resumes with the snapshot; the hooked saveNotepad
\* then resolves to its caller
ReloadCompletes(tk) ==
  /\ tk.kind = "save" /\ tk.pc = "loaded"
  /\ LET st == reloadBody(St, tk.snap, now)
     IN  IF tk.caller = "close" /\ tk.id \in open
         THEN DestroyIn(st, tk.id, Without(tk))
         ELSE /\ SetSt(st)
              /\ tasks' = Without(tk)
              /\ last' = RunStep("reloadDone", tk.snap, session)
              /\ UNCHANGED <<open, removed>>
  /\ UNCHANGED <<now, durable, inputTimer, used, lastLocal>>
  /\ UNCHANGED second
  /\ UNCHANGED debounceVars
  /\ UNCHANGED authVars

\* forceRefreshWithLocalStorage resumes with the snapshot
ForceCompletes(tk) ==
  /\ tk.kind = "force" /\ tk.pc = "loaded"
  /\ SetSt(forceRefreshBody(St, tk.snap, now))
  /\ tasks' = Without(tk)
  /\ last' = RunStep("forceDone", tk.snap, session)
  /\ UNCHANGED <<now, durable, open, inputTimer, used, removed, lastLocal>>
  /\ UNCHANGED second
  /\ UNCHANGED debounceVars
  /\ UNCHANGED authVars

\* deleteDoc of FirebaseNotepadService.deleteNotepad takes effect and
\* storageService.deleteNotepad resolves to its caller (the sidebar then reloads
\* its list; destroy did not wait for it)
DeleteLands(tk) ==
  /\ tk.kind = "delete" /\ tk.pc = "write"
  /\ durable' = Del(durable, tk.id)
  /\ tasks' = Without(tk)
  /\ last' = IF tk.caller = "sidebar" THEN Step("sidebarDeleted", tk.id) ELSE Quiet
  /\ UNCHANGED <<now, registry, idx, session, open, uiText,
                 inputTimer, used, removed, lastLocal>>
  /\ UNCHANGED second
  /\ UNCHANGED debounceVars
  /\ UNCHANGED authVars

\* deleteDoc fails: storageService.deleteNotepad rejects
DeleteFails(tk) ==
  /\ tk.kind = "delete" /\ tk.pc = "write"
  /\ tasks' = Without(tk)
  /\ last' = Quiet
  /\ UNCHANGED <<now, registry, idx, session, durable, open, uiText,
                 inputTimer, used, removed, lastLocal>>
  /\ UNCHANGED second
  /\ UNCHANGED debounceVars
  /\ UNCHANGED authVars

Next ==
  \/ Tick
  \/ CreateNewNotepad
  \/ \E id \in NoteIds, text \in ContentChoices : TypeText(id, text)
  \/ \E id \in NoteIds : InputTimerFires(id)
  \/ \E id \in NoteIds : HandleMinimize(id)
  \/ \E id \in NoteIds : HandleClose(id)
  \/ \E id \in NoteIds : SidebarDelete(id)
  \/ ForceRefresh
  \/ \E tk \in InFlight : WriteLands(tk)
  \/ \E tk \in InFlight : WriteFails(tk)
  \/ \E tk \in InFlight : SaveResumes(tk)
  \/ \E tk \in InFlight : LoadReturns(tk)
  \/ \E tk \in InFlight : LoadFails(tk)
  \/ \E tk \in InFlight : RetryFires(tk)
  \/ \E tk \in InFlight : StartupCompletes(tk)
  \/ \E tk \in InFlight : ReloadCompletes(tk)
  \/ \E tk \in InFlight : ForceCompletes(tk)
  \/ \E tk \in InFlight : DeleteLands(tk)
  \/ \E tk \in InFlight : DeleteFails(tk)

Spec == Init /\ [][Next]_vars

\* the same program while Firestore answers every request
NextOnline ==
  \/ Tick
  \/ CreateNewNotepad
  \/ \E id \in NoteIds, text \in ContentChoices : TypeText(id, text)
  \/ \E id \in NoteIds : InputTimerFires(id)
  \/ \E id \in NoteIds : HandleMinimize(id)
  \/ \E id \in NoteIds : HandleClose(id)
  \/ \E id \in NoteIds : SidebarDelete(id)
  \/ ForceRefresh
  \/ \E tk \in InFlight : WriteLands(tk)
  \/ \E tk \in InFlight : SaveResumes(tk)
  \/ \E tk \in InFlight : LoadReturns(tk)
  \/ \E tk \in InFlight : StartupCompletes(tk)
  \/ \E tk \in InFlight : ReloadCompletes(tk)
  \/ \E tk \in InFlight : ForceCompletes(tk)
  \/ \E tk \in InFlight : DeleteLands(tk)

SpecOnline == Init /\ [][NextOnline]_vars

(***************************************************************************)
(* SearchManager on its own: any caller, any note                          *)
(***************************************************************************)
Work == <<"W","k">>
MilkTea == <<"m","i","l","k"," ","T","E","A">>
\* the notes handed to indexNote: contents that share words, tags that share keys
Spaces == <<" ", " ">>
IndexContents == {<<>>, Spaces, Milk, Tea, MilkTea}
Initial == <<"W">>
IndexTags == {<<>>, <<Work>>, <<Work, Tea>>, <<Initial>>}

IndexInit ==
  /\ now = 0
  /\ registry = EmptyMap
  /\ idx = EmptyIndex
  /\ session = EmptyMap
  /\ durable = EmptyMap
  /\ tasks = EmptyBag
  /\ open = {}
  /\ uiText = EmptyMap
  /\ inputTimer = {}
  /\ used = {}
  /\ removed = {}
  /\ lastLocal = EmptyMap
  /\ last = Quiet
  /\ second = NoIndex
  /\ NoTimers
  /\ SingleUser

IndexNote(note) ==
  /\ idx' = indexNote(idx, note)
  /\ last' = [Step("indexNote", note.id) EXCEPT
                !.D = IF Has(idx.notes, note.id)
                      THEN (note.id :> idx.notes[note.id]) ELSE EmptyMap]
  /\ UNCHANGED <<now, registry, session, durable, tasks, open, uiText,
                 inputTimer, used, removed, lastLocal>>
  /\ UNCHANGED second
  /\ UNCHANGED debounceVars
  /\ UNCHANGED authVars

RemoveNote(id) ==
  /\ idx' = removeNote(idx, id)
  /\ last' = Step("removeNote", id)
  /\ UNCHANGED <<now, registry, session, durable, tasks, open, uiText,
                 inputTimer, used, removed, lastLocal>>
  /\ UNCHANGED second
  /\ UNCHANGED debounceVars
  /\ UNCHANGED authVars

ClearSearchIndex ==
  /\ idx' = clearSearchIndex(idx)
  /\ last' = Step("clearSearchIndex", 0)
  /\ UNCHANGED <<now, registry, session, durable, tasks, open, uiText,
                 inputTimer, used, removed, lastLocal>>
  /\ UNCHANGED second
  /\ UNCHANGED debounceVars
  /\ UNCHANGED authVars

\* the document sets a rebuild can be given: any ids, each with one of these notes
RebuildNotes == {[content |-> <<>>, tags |-> <<>>],
                 [content |-> Milk, tags |-> <<Work>>],
                 [content |-> MilkTea, tags |-> <<Work, Tea>>]}
RebuildSets ==
  UNION {[ids -> RebuildNotes] : ids \in SUBSET NoteIds}

\* history of a rebuild: the document set, and the words and tags posted before it
RebuildStep(D, words, tags) ==
  [op |-> "rebuild", id |-> 0, D |-> D, S |-> [words |-> words, tags |-> tags]]

\* loadNotesIntoSearchIndex, lines 179-184: clearSearchIndex, then indexNote for
\* every document of the set
Rebuild(D) ==
  /\ idx' = indexAll(clearSearchIndex(idx), D, DOMAIN D)
  /\ last' = RebuildStep(D, DOMAIN idx.searchIndex, DOMAIN idx.tagIndex)
  /\ UNCHANGED <<now, registry, session, durable, tasks, open, uiText,
                 inputTimer, used, removed, lastLocal>>
  /\ UNCHANGED second
  /\ UNCHANGED debounceVars
  /\ UNCHANGED authVars

IndexNext ==
  \/ \E id \in NoteIds, content \in IndexContents, tags \in IndexTags :
       IndexNote(NotepadData(id, content, tags, 0))
  \/ \E id \in NoteIds : RemoveNote(id)
  \/ ClearSearchIndex
  \/ \E S \in RebuildSets :
       Rebuild([id \in DOMAIN S |-> NotepadData(id, S[id].content, S[id].tags, 0)])

SpecIndex == IndexInit /\ [][IndexNext]_vars

(***************************************************************************)
(* Installing the interception, once or twice                              *)
(* hooks = for stateManager.createNotepad / updateNotepad / deleteNotepad  *)
(* and storageService.saveNotepad the wrappers around the original, the    *)
(* innermost first.  w = [registry, managers, session, uiText] with the    *)
(* SearchManager of every SearchIntegration, and the calls made by the     *)
(* wrappers during one operation.                                          *)
(***************************************************************************)
Wrapper(kind, manager) == [kind |-> kind, manager |-> manager]

\* stateManager and storageService as exported, nothing wrapped
Unhooked ==
  [createNotepad |-> <<>>, updateNotepad |-> <<>>, deleteNotepad |-> <<>>,
   saveNotepad |-> <<>>]

\* (fn as any).__searchHookApplied of the function currently installed
HookApplied(chain) == chain # <<>> /\ chain[Len(chain)].kind = "tracking"

setupStorageServiceTracking(hooks, m) ==
  IF HookApplied(hooks.saveNotepad) THEN hooks
  ELSE [hooks EXCEPT !.saveNotepad = Append(@, Wrapper("tracking", m))]

setupStateManagerTracking(hooks, m) ==
  IF HookApplied(hooks.createNotepad) THEN hooks
  ELSE [hooks EXCEPT !.createNotepad = Append(@, Wrapper("tracking", m)),
                     !.updateNotepad = Append(@, Wrapper("tracking", m))]

setupStateListeners(hooks, m) ==
  [hooks EXCEPT !.updateNotepad = Append(@, Wrapper("listener", m)),
                !.deleteNotepad = Append(@, Wrapper("listener", m))]

\* new SearchIntegration(): setupNotepadTracking, then new SearchUI
constructSearchIntegration(hooks, m) ==
  setupStateListeners(
    setupStateManagerTracking(setupStorageServiceTracking(hooks, m), m), m)

HooksOnce == constructSearchIntegration(Unhooked, 1)
HooksTwice == constructSearchIntegration(HooksOnce, 2)

NoCalls == [index |-> <<0, 0>>, session |-> 0, runs |-> 0]

\* what a wrapper of createNotepad or updateNotepad does with the result
AfterResult(w, wrapper, result) ==
  LET m == wrapper.manager
      indexed == [w EXCEPT !.managers[m] = indexNote(@, result),
                           !.calls.index[m] = @ + 1]
  IN  IF wrapper.kind = "tracking"
      THEN [indexed EXCEPT !.session = saveNote(@, result),
                           !.calls.session = @ + 1]
      ELSE indexed

RECURSIVE AfterResultAll(_, _, _)
AfterResultAll(w, chain, result) ==
  IF chain = <<>> THEN w
  ELSE AfterResultAll(AfterResult(w, Head(chain), result), Tail(chain), result)

\* stateManager.createNotepad as currently installed
chainedCreateNotepad(w, hooks, id, initialData, t) ==
  LET result == createNotepad(id, initialData, t)
      created == [w EXCEPT !.registry = Put(@, id, result),
                           !.uiText = notifyListeners(@, id, result)]
  IN  AfterResultAll(created, hooks.createNotepad, result)

\* stateManager.updateNotepad as currently installed
chainedUpdateNotepad(w, hooks, id, updates, t) ==
  IF ~Has(w.registry, id) THEN w
  ELSE LET result == updateNotepad(w.registry[id], updates, t)
           updated == [w EXCEPT !.registry = Put(@, id, result),
                                !.uiText = notifyListeners(@, id, result)]
       IN  AfterResultAll(updated, hooks.updateNotepad, result)

RECURSIVE RemoveFromAll(_, _, _)
RemoveFromAll(w, chain, id) ==
  IF chain = <<>> THEN w
  ELSE RemoveFromAll([w EXCEPT !.managers[Head(chain).manager] = removeNote(@, id),
                               !.calls.index[Head(chain).manager] = @ + 1],
                     Tail(chain), id)

\* stateManager.deleteNotepad as currently installed
chainedDeleteNotepad(w, hooks, id) ==
  [RemoveFromAll(w, hooks.deleteNotepad, id) EXCEPT !.registry = Del(@, id)]

\* if (!stateManager.getNotepad(id)) stateManager.createNotepad(...)
chainedMaterialize(w, hooks, notepad, t) ==
  IF Has(w.registry, notepad.id) THEN w
  ELSE chainedCreateNotepad(w, hooks, notepad.id,
         [content |-> notepad.content, tags |-> notepad.tags], t)

RECURSIVE chainedMaterializeAll(_, _, _, _, _)
chainedMaterializeAll(w, hooks, all, ids, t) ==
  IF ids = {} THEN w
  ELSE chainedMaterializeAll(chainedMaterialize(w, hooks, all[Min(ids)], t),
                             hooks, all, ids \ {Min(ids)}, t)

\* loadNotesIntoSearchIndex of the SearchIntegration with SearchManager m
loadNotesInto(w, hooks, m, notepadMap, t) ==
  LET all == combineNotes(notepadMap, w.session)
      indexed == [w EXCEPT !.managers[m] =
                    indexAll(clearSearchIndex(@), all, DOMAIN all)]
  IN  chainedMaterializeAll(indexed, hooks, all, DOMAIN all, t)

RECURSIVE reloadEach(_, _, _, _, _, _)
reloadEach(w, hooks, m, all, ids, t) ==
  IF ids = {} THEN w
  ELSE LET n == all[Min(ids)]
           indexed == [w EXCEPT !.managers[m] = indexNote(@, n)]
       IN  reloadEach(chainedMaterialize(indexed, hooks, n, t),
                      hooks, m, all, ids \ {Min(ids)}, t)

\* reloadSearchIndexFromStorage of the SearchIntegration with SearchManager m,
\* the durable store answering at once
reloadInto(w, hooks, m, notepadMap, t) ==
  LET cleared == [w EXCEPT !.managers[m] = clearSearchIndex(@),
                           !.calls.runs = @ + 1]
      all == combineNotes(notepadMap, cleared.session)
  IN  reloadEach(cleared, hooks, m, all, DOMAIN all, t)

RECURSIVE reloadAll(_, _, _, _, _)
reloadAll(w, hooks, chain, notepadMap, t) ==
  IF chain = <<>> THEN w
  ELSE reloadAll(reloadInto(w, hooks, Head(chain).manager, notepadMap, t),
                 hooks, Tail(chain), notepadMap, t)

\* the wrappers in place: of one SearchIntegration, or of two
Hooks == IF second = NoIndex THEN HooksOnce ELSE HooksTwice

World ==
  [registry |-> registry, managers |-> <<idx, second>>, session |-> session,
   uiText |-> uiText, calls |-> NoCalls]

SetWorld(w) ==
  /\ registry' = w.registry
  /\ idx' = w.managers[1]
  /\ second' = w.managers[2]
  /\ session' = w.session
  /\ uiText' = w.uiText

TwiceStep(op, id, calls) ==
  [op |-> op, id |-> id, D |-> EmptyMap, S |-> EmptyMap, calls |-> calls]

\* one SearchIntegration constructed for a user with an empty store
TwiceInit == IndexInit

\* new SearchIntegration() a second time: its own SearchManager, the set-up of
\* the wrappers, and its first load (the durable store answering at once)
ConstructAgain ==
  /\ second = NoIndex
  /\ LET w == [World EXCEPT !.managers[2] = EmptyIndex]
     IN  SetWorld(loadNotesInto(w, HooksTwice, 2, getAllNotepads(durable), now))
  /\ last' = Quiet
  /\ UNCHANGED <<now, durable, tasks, open, inputTimer, used, removed, lastLocal>>
  /\ UNCHANGED debounceVars
  /\ UNCHANGED authVars

TwiceCreate ==
  /\ NoteIds \ used # {}
  /\ LET id == Min(NoteIds \ used)
         w == chainedCreateNotepad(World, Hooks, id, [content |-> <<>>], now)
     IN  /\ SetWorld(w)
         /\ used' = used \cup {id}
         /\ last' = TwiceStep("create", id, w.calls)
  /\ UNCHANGED <<now, durable, tasks, open, inputTimer, removed, lastLocal>>
  /\ UNCHANGED debounceVars
  /\ UNCHANGED authVars

TwiceUpdate(id, text) ==
  /\ Has(registry, id)
  /\ LET w == chainedUpdateNotepad(World, Hooks, id, [content |-> text], now)
     IN  /\ SetWorld(w)
         /\ last' = TwiceStep("update", id, w.calls)
  /\ UNCHANGED <<now, durable, tasks, open, inputTimer, used, removed, lastLocal>>
  /\ UNCHANGED debounceVars
  /\ UNCHANGED authVars

TwiceDelete(id) ==
  /\ Has(registry, id)
  /\ LET w == chainedDeleteNotepad(World, Hooks, id)
     IN  /\ SetWorld(w)
         /\ last' = TwiceStep("delete", id, w.calls)
  /\ UNCHANGED <<now, durable, tasks, open, inputTimer, used, removed, lastLocal>>
  /\ UNCHANGED debounceVars
  /\ UNCHANGED authVars

\* storageService.saveNotepad as currently installed, the write landing at once
TwiceSave(id) ==
  /\ Has(registry, id)
  /\ durable' = Put(durable, id, ToFirestore(registry[id]))
  /\ LET w == reloadAll(World, Hooks, Hooks.saveNotepad,
                        getAllNotepads(durable'), now)
     IN  /\ SetWorld(w)
         /\ last' = TwiceStep("save", id, w.calls)
  /\ UNCHANGED <<now, tasks, open, inputTimer, used, removed, lastLocal>>
  /\ UNCHANGED debounceVars
  /\ UNCHANGED authVars

TwiceNext ==
  \/ Tick
  \/ ConstructAgain
  \/ TwiceCreate
  \/ \E id \in NoteIds, text \in ContentChoices : TwiceUpdate(id, text)
  \/ \E id \in NoteIds : TwiceDelete(id)
  \/ \E id \in NoteIds : TwiceSave(id)

SpecTwice == TwiceInit /\ [][TwiceNext]_vars

(***************************************************************************)
(* StorageService.debouncedSave on its own: the storageService singleton   *)
(* with saveNotepad as the class defines it, the documents being saved     *)
(* given by the caller.                                                    *)
(***************************************************************************)
MaxTimers == 3

Timer(handle, notepad, gen) == [handle |-> handle, notepad |-> notepad, gen |-> gen]

TimersOf(id) == {t \in timeouts : t.notepad.id = id}

\* window.clearTimeout(handle): nothing happens when the timer has fired
clearTimeout(set, handle) == {t \in set : t.handle # handle}

\* the previous call's timer for id has fired (or there was no call yet)
BurstOver(id) ==
  ~ Has(burst, id) \/ burst[id].handle \notin {t.handle : t \in timeouts}

\* debouncedSave(notepad) up to the return of its promise
DebouncedSave(id, content) ==
  /\ nextTimer <= MaxTimers
  /\ LET notepad == NotepadData(id, content, <<>>, now)
         cleared == IF Has(saveDebounceTimers, id)
                    THEN clearTimeout(timeouts, saveDebounceTimers[id])
                    ELSE timeouts
         gen == IF ~ Has(burst, id) THEN 1
                ELSE IF BurstOver(id) THEN burst[id].gen + 1 ELSE burst[id].gen
         writes == IF BurstOver(id) THEN <<>> ELSE burst[id].writes
     IN  /\ timeouts' = cleared \cup {Timer(nextTimer, notepad, gen)}
         /\ saveDebounceTimers' = Put(saveDebounceTimers, id, nextTimer)
         /\ burst' = Put(burst, id, [gen |-> gen, handle |-> nextTimer,
                                     notepad |-> notepad, writes |-> writes])
  /\ nextTimer' = nextTimer + 1
  /\ promises' = Put(promises, nextTimer, "pending")
  /\ last' = Step("debouncedSave", id)
  /\ UNCHANGED <<now, registry, idx, session, durable, tasks, open, uiText,
                 inputTimer, used, removed, lastLocal, second>>
  /\ UNCHANGED authVars

\* the timer fires: this.saveNotepad(notepad) up to its await of the Firestore write
TimerFires(t) ==
  /\ t \in timeouts
  /\ timeouts' = timeouts \ {t}
  /\ tasks' = With(tasks, [handle |-> t.handle] @@
                            Task("debounced", "write", t.notepad.id, t.notepad,
                                 EmptyMap, "timer"))
  /\ burst' = IF burst[t.notepad.id].gen = t.gen
              THEN [burst EXCEPT ![t.notepad.id].writes = Append(@, t.notepad)]
              ELSE burst
  /\ last' = [Step("fire", t.notepad.id) EXCEPT
                !.D = (t.notepad.id :> t.notepad),
                !.S = (t.notepad.id :> burst[t.notepad.id].notepad)]
  /\ UNCHANGED <<now, registry, idx, session, durable, open, uiText,
                 inputTimer, used, removed, lastLocal, second,
                 saveDebounceTimers, nextTimer, promises>>
  /\ UNCHANGED authVars

\* the write settles: .then(resolve) or .catch(reject), then .finally
WriteSettles(tk, ok) ==
  /\ tk \in InFlight
  /\ tk.kind = "debounced"
  /\ tasks' = Without(tk)
  /\ durable' = IF ok THEN Put(durable, tk.id, ToFirestore(tk.doc)) ELSE durable
  /\ saveDebounceTimers' = Del(saveDebounceTimers, tk.id)
  /\ promises' = [promises EXCEPT ![tk.handle] = IF ok THEN "resolved" ELSE "rejected"]
  /\ last' = Step("settle", tk.id)
  /\ UNCHANGED <<now, registry, idx, session, open, uiText,
                 inputTimer, used, removed, lastLocal, second,
                 timeouts, nextTimer, burst>>
  /\ UNCHANGED authVars

DebounceNext ==
  \/ \E id \in NoteIds, content \in ContentChoices : DebouncedSave(id, content)
  \/ \E t \in timeouts : TimerFires(t)
  \/ \E tk \in InFlight, ok \in BOOLEAN : WriteSettles(tk, ok)

SpecDebounce == IndexInit /\ [][DebounceNext]_vars

\* a timer set with setTimeout fires after its delay, and the promise of a
\* Firestore request settles
DebounceFairness ==
  /\ WF_vars(\E t \in timeouts : TimerFires(t))
  /\ WF_vars(\E tk \in InFlight, ok \in BOOLEAN : WriteSettles(tk, ok))

SpecDebounceLive == SpecDebounce /\ DebounceFairness

(***************************************************************************)
(* The page is refreshed: a new content-script session                     *)
(***************************************************************************)
\* The page unloads and the content script starts again: every object of the
\* old session is gone (registry, index, Notepad objects, timers, pending
\* continuations), localStorage and Firestore are what they were, and the new
\* SearchIntegration begins its first load.  Writes not yet landed are lost.
PageRefresh ==
  /\ registry' = EmptyMap
  /\ idx' = EmptyIndex
  /\ tasks' = SetToBag({Task("startup", "load", 0, NoDoc, EmptyMap, "init")})
  /\ open' = {}
  /\ uiText' = EmptyMap
  /\ inputTimer' = {}
  /\ removed' = {}
  /\ lastLocal' = EmptyMap
  /\ last' = Step("refresh", 0)
  /\ UNCHANGED <<now, session, durable, used, second>>
  /\ UNCHANGED debounceVars
  /\ UNCHANGED authVars

RefreshNext ==
  \/ CreateNewNotepad
  \/ \E id \in NoteIds, text \in ContentChoices : TypeText(id, text)
  \/ \E id \in NoteIds : InputTimerFires(id)
  \/ \E tk \in InFlight : WriteLands(tk)
  \/ \E tk \in InFlight : SaveResumes(tk)
  \/ \E tk \in InFlight : LoadReturns(tk)
  \/ \E tk \in InFlight : StartupCompletes(tk)
  \/ \E tk \in InFlight : ReloadCompletes(tk)
  \/ PageRefresh

SpecRefresh == Init /\ [][RefreshNext]_vars

(***************************************************************************)
(* SearchManager.search: an index filled by indexNote, then any query      *)
(***************************************************************************)
SpaceTea == <<" ","t","e","a">>
IlkTea == <<"i","l","k"," ","t","e","a">>
\* ten query words, one of them "milk"
LongQuery ==
  Milk \o SpaceTea \o SpaceTea \o SpaceTea \o SpaceTea \o SpaceTea
       \o SpaceTea \o SpaceTea \o SpaceTea \o SpaceTea

\* the notes searched: a note whose two tags contain one another, a note whose
\* tag and content share a word, a note without tags
SearchNotes ==
  {[content |-> Milk, tags |-> <<Work, Initial>>],
   [content |-> MilkTea, tags |-> <<Tea>>],
   [content |-> Tea, tags |-> <<>>]}
\* the queries: empty, blank, a word, a tag, part of a phrase
SearchQueries == {<<>>, <<" ">>, <<"t","e","a">>, Milk, <<"w">>, IlkTea}

\* every option set for the short queries; the query of many words by content
AllOptions ==
  {SearchOptions(q, c, t, cs, em) :
     q \in SearchQueries, c \in BOOLEAN, t \in BOOLEAN, cs \in BOOLEAN, em \in BOOLEAN}
  \cup {SearchOptions(LongQuery, TRUE, FALSE, cs, FALSE) : cs \in BOOLEAN}

SearchStep(options, results) ==
  [op |-> "search", id |-> 0, D |-> EmptyMap, S |-> EmptyMap,
   options |-> options, results |-> results]

\* searchManager.search(options): the index is read, the list is returned
Search(options) ==
  /\ last' = SearchStep(options, search(idx, options))
  /\ UNCHANGED <<now, registry, idx, session, durable, tasks, open, uiText,
                 inputTimer, used, removed, lastLocal, second>>
  /\ UNCHANGED debounceVars
  /\ UNCHANGED authVars

SearchNext ==
  \/ \E id \in NoteIds, n \in SearchNotes, lastModified \in 0..MaxNow :
       IndexNote(NotepadData(id, n.content, n.tags, lastModified))
  \/ \E options \in AllOptions : Search(options)

SpecSearch == IndexInit /\ [][SearchNext]_vars

(***************************************************************************)
(* Documents of any shape: the stores can hold a document without a        *)
(* content field (written by another client or an earlier version).  Such  *)
(* a document is a record without the field; reading the field in          *)
(* JavaScript gives undefined.                                             *)
(***************************************************************************)
HasContent(note) == "content" \in DOMAIN note

\* FirebaseNotepadService.getAllNotepads: content: data.content, as it is
FromFirestoreAnyShape(id, data) ==
  IF HasContent(data) THEN FromFirestore(id, data)
  ELSE [id |-> id, tags |-> <<>>, lastModified |-> data.lastModified]

getAllNotepadsAnyShape(store) ==
  [id \in DOMAIN store |-> FromFirestoreAnyShape(id, store[id])]

\* what the stores can hold for an id
ShapeDurable == {[content |-> Milk, lastModified |-> 0], [lastModified |-> 0]}
ShapeSession(id) ==
  {NotepadData(id, Tea, <<Work>>, 0),
   [id |-> id, tags |-> <<Work>>, lastModified |-> 0]}

\* indexNote reads note.content.length before anything else and
\* tokenize calls text.toLowerCase(): a TypeError when content is undefined
indexNoteThrows(note) == ~HasContent(note)

\* allNotepads.forEach(indexNote; createNotepad when absent) up to the first
\* exception, which leaves the loop
RECURSIVE reloadEachUntilThrow(_, _, _, _)
reloadEachUntilThrow(st, all, ids, t) ==
  IF ids = {} THEN [st |-> st, threw |-> FALSE]
  ELSE LET n == all[Min(ids)]
       IN  IF indexNoteThrows(n) THEN [st |-> st, threw |-> TRUE]
           ELSE reloadEachUntilThrow(
                  materialize([st EXCEPT !.idx = indexNote(st.idx, n)], n, t),
                  all, ids \ {Min(ids)}, t)

\* a document is put into the durable store from elsewhere
ForeignWrite(id, data) ==
  /\ durable' = Put(durable, id, data)
  /\ last' = Step("foreignWrite", id)
  /\ UNCHANGED <<now, registry, idx, session, tasks, open, uiText,
                 inputTimer, used, removed, lastLocal, second>>
  /\ UNCHANGED debounceVars
  /\ UNCHANGED authVars

\* localStorage holds an entry left by an earlier version
SessionLeftover(id, note) ==
  /\ session' = Put(session, id, note)
  /\ last' = Step("sessionLeftover", id)
  /\ UNCHANGED <<now, registry, idx, durable, tasks, open, uiText,
                 inputTimer, used, removed, lastLocal, second>>
  /\ UNCHANGED debounceVars
  /\ UNCHANGED authVars

\* reloadSearchIndexFromStorage, the durable store answering at once; an
\* exception of the loop is caught and logged
ReloadAnyShape ==
  /\ LET all == combineNotes(getAllNotepadsAnyShape(durable), session)
         cleared == [St EXCEPT !.idx = clearSearchIndex(idx)]
         run == reloadEachUntilThrow(cleared, all, DOMAIN all, now)
     IN  /\ SetSt(run.st)
         /\ last' = [RunStep("reloadAnyShape", all, session) EXCEPT
                       !.id = IF run.threw THEN 1 ELSE 0]
  /\ UNCHANGED <<now, durable, tasks, open, inputTimer, used, removed,
                 lastLocal, second>>
  /\ UNCHANGED debounceVars
  /\ UNCHANGED authVars

ShapeNext ==
  \/ \E id \in NoteIds, data \in ShapeDurable : ForeignWrite(id, data)
  \/ \E id \in NoteIds : \E note \in ShapeSession(id) : SessionLeftover(id, note)
  \/ ReloadAnyShape

SpecShape == IndexInit /\ [][ShapeNext]_vars

(***************************************************************************)
(* Users signing in and out on one page.  The SearchIntegration is         *)
(* constructed while nobody is signed in, so initializeSearchIndex         *)
(* subscribes handleAuthChange and sets its one-second timer.  The durable *)
(* store answers at once.                                                  *)
(***************************************************************************)
UsersInit ==
  /\ now = 0
  /\ registry = EmptyMap
  /\ idx = EmptyIndex
  /\ session = EmptyMap
  /\ durable = EmptyMap
  /\ tasks = EmptyBag
  /\ open = {}
  /\ uiText = EmptyMap
  /\ inputTimer = {}
  /\ used = {}
  /\ removed = {}
  /\ lastLocal = EmptyMap
  /\ last = Quiet
  /\ second = NoIndex
  /\ NoTimers
  /\ currentUser = NoUser
  /\ firestore = [u \in Users |-> EmptyMap]
  /\ authListener = TRUE
  /\ startupTimer = TRUE
  /\ author = EmptyMap

\* loadNotesIntoSearchIndex for the user signed in
loadNotesFor(u) == loadNotesBody(St, getAllNotepads(firestore[u]), now)

\* authBridge notifies its listeners of a signed-in user: handleAuthChange, while
\* subscribed, loads the index and unsubscribes
SignIn(u) ==
  /\ currentUser = NoUser
  /\ currentUser' = u
  /\ IF authListener
     THEN /\ SetSt(loadNotesFor(u))
          /\ last' = RunStep("signInLoad", getAllNotepads(firestore[u]), session)
     ELSE /\ UNCHANGED <<registry, idx, session, uiText>>
          /\ last' = Step("signIn", 0)
  /\ authListener' = FALSE
  /\ UNCHANGED <<now, durable, tasks, open, inputTimer, used, removed,
                 lastLocal, second, firestore, startupTimer, author>>
  /\ UNCHANGED debounceVars

\* authBridge notifies its listeners of null: handleAuthChange, while subscribed,
\* clears the index
SignOut ==
  /\ currentUser # NoUser
  /\ currentUser' = NoUser
  /\ idx' = IF authListener THEN clearSearchIndex(idx) ELSE idx
  /\ last' = Step("signOut", 0)
  /\ UNCHANGED <<now, registry, session, durable, tasks, open, uiText,
                 inputTimer, used, removed, lastLocal, second,
                 firestore, authListener, startupTimer, author>>
  /\ UNCHANGED debounceVars

\* the timer of initializeSearchIndex: load when somebody is signed in by then
StartupTimerFires ==
  /\ startupTimer
  /\ startupTimer' = FALSE
  /\ IF currentUser # NoUser
     THEN /\ SetSt(loadNotesFor(currentUser))
          /\ last' = RunStep("timerLoad", getAllNotepads(firestore[currentUser]), session)
     ELSE /\ UNCHANGED <<registry, idx, session, uiText>>
          /\ last' = Step("timer", 0)
  /\ UNCHANGED <<now, durable, tasks, open, inputTimer, used, removed,
                 lastLocal, second, currentUser, firestore, authListener, author>>
  /\ UNCHANGED debounceVars

\* createNewNotepad by whoever uses the page
UserCreates ==
  /\ NoteIds \ used # {}
  /\ LET id == Min(NoteIds \ used)
     IN  /\ SetSt(hookedCreateNotepad(St, id, [content |-> <<>>], now))
         /\ used' = used \cup {id}
         /\ author' = Put(author, id, currentUser)
         /\ last' = Step("create", id)
  /\ UNCHANGED <<now, durable, tasks, open, inputTimer, removed, lastLocal,
                 second, currentUser, firestore, authListener, startupTimer>>
  /\ UNCHANGED debounceVars

\* handleContentChange: the hooked updateNotepad, then the hooked saveNotepad,
\* which throws before writing when nobody is signed in and otherwise writes to
\* the user's collection and reloads the index
UserEdits(id, text) ==
  /\ Has(registry, id)
  /\ registry[id].content # text
  /\ LET updated == hookedUpdateNotepad(St, id, [content |-> text], now)
     IN  IF currentUser = NoUser
         THEN /\ SetSt(updated)
              /\ UNCHANGED firestore
              /\ last' = Step("update", id)
         ELSE /\ firestore' = [firestore EXCEPT ![currentUser] =
                                 Put(@, id, ToFirestore(updated.registry[id]))]
              /\ SetSt(reloadBody([updated EXCEPT !.idx = clearSearchIndex(@)],
                                  getAllNotepads(firestore'[currentUser]), now))
              /\ last' = RunStep("saveReload", getAllNotepads(firestore'[currentUser]),
                                 updated.session)
  /\ UNCHANGED <<now, durable, tasks, open, inputTimer, used, removed, lastLocal,
                 second, currentUser, authListener, startupTimer, author>>
  /\ UNCHANGED debounceVars

UsersNext ==
  \/ \E u \in Users : SignIn(u)
  \/ SignOut
  \/ StartupTimerFires
  \/ UserCreates
  \/ \E id \in NoteIds, text \in ContentChoices : UserEdits(id, text)

SpecUsers == UsersInit /\ [][UsersNext]_vars

(***************************************************************************)
(* StorageService (cloud-first): every operation asks authBridge for the   *)
(* current user first.  A request of an authenticated user reaches         *)
(* Firestore or fails there; ok tells which.                               *)
(***************************************************************************)
AuthRequired == "Authentication required"
SaveFailed == "Failed to save"
LoadFailed == "Failed to load"
DeleteFailed == "Failed to delete"
Resolved == "resolved"

\* what an operation of the service gives back: how its promise settles, the
\* value it resolves to, and the collections afterwards
Settled(outcome, value, fs) == [outcome |-> outcome, value |-> value, firestore |-> fs]

\* variant: the service writes for the anonymous user "A"
saveNotepadUnguarded(user, fs, notepad, ok) ==
  IF ~ok THEN Settled(SaveFailed, EmptyMap, fs)
  ELSE Settled(Resolved, EmptyMap,
               [fs EXCEPT !["A"] = Put(@, notepad.id, ToFirestore(notepad))])

saveNotepad(user, fs, notepad, ok) ==
  IF user = NoUser THEN Settled(AuthRequired, EmptyMap, fs)
  ELSE IF ~ok THEN Settled(SaveFailed, EmptyMap, fs)
  ELSE Settled(Resolved, EmptyMap,
               [fs EXCEPT ![user] = Put(@, notepad.id, ToFirestore(notepad))])

\* Promise.all over the notepads: the writes of landed reach Firestore, the
\* promise rejects as soon as one of the others fails
saveAllNotepads(user, fs, notepads, landed) ==
  IF user = NoUser THEN Settled(AuthRequired, EmptyMap, fs)
  ELSE LET written == [fs EXCEPT ![user] =
                         [id \in DOMAIN @ \cup landed |->
                            IF id \in landed THEN ToFirestore(notepads[id])
                            ELSE @[id]]]
       IN  IF landed = DOMAIN notepads
           THEN Settled(Resolved, EmptyMap, written)
           ELSE Settled(SaveFailed, EmptyMap, written)

loadAllNotepads(user, fs, ok) ==
  IF user = NoUser THEN Settled(Resolved, EmptyMap, fs)
  ELSE IF ~ok THEN Settled(LoadFailed, EmptyMap, fs)
  ELSE Settled(Resolved, getAllNotepads(fs[user]), fs)

deleteNotepad(user, fs, notepadId, ok) ==
  IF user = NoUser THEN Settled(AuthRequired, EmptyMap, fs)
  ELSE IF ~ok THEN Settled(DeleteFailed, EmptyMap, fs)
  ELSE Settled(Resolved, EmptyMap, [fs EXCEPT ![user] = Del(@, notepadId)])

\* the record of a call: who was signed in, the collections before, the result
StorageStep(op, result) ==
  [op |-> op, id |-> 0, D |-> EmptyMap, S |-> EmptyMap,
   user |-> currentUser, before |-> firestore, result |-> result]

StorageCall(op, result) ==
  /\ firestore' = result.firestore
  /\ last' = StorageStep(op, result)
  /\ UNCHANGED <<now, registry, idx, session, durable, tasks, open, uiText,
                 inputTimer, used, removed, lastLocal, second,
                 currentUser, authListener, startupTimer, author>>
  /\ UNCHANGED debounceVars

StorageNotes == [id \in NoteIds |-> NotepadData(id, Milk, <<>>, 0)]

SaveNotepad(notepad, ok) ==
  StorageCall("saveNotepad", saveNotepad(currentUser, firestore, notepad, ok))

SaveAllNotepads(ids, landed) ==
  StorageCall("saveAllNotepads",
              saveAllNotepads(currentUser, firestore,
                              [id \in ids |-> StorageNotes[id]], landed))

LoadAllNotepads(ok) ==
  StorageCall("loadAllNotepads", loadAllNotepads(currentUser, firestore, ok))

DeleteNotepad(notepadId, ok) ==
  StorageCall("deleteNotepad", deleteNotepad(currentUser, firestore, notepadId, ok))

StorageNext ==
  \/ \E u \in Users : SignIn(u)
  \/ SignOut
  \/ \E id \in NoteIds, content \in ContentChoices, ok \in BOOLEAN :
       SaveNotepad(NotepadData(id, content, <<>>, now), ok)
  \/ \E ids \in SUBSET NoteIds : \E landed \in SUBSET ids : SaveAllNotepads(ids, landed)
  \/ \E ok \in BOOLEAN : LoadAllNotepads(ok)
  \/ \E id \in NoteIds, ok \in BOOLEAN : DeleteNotepad(id, ok)

SpecStorage == IndexInit /\ [][StorageNext]_vars

(***************************************************************************)
(* The tokenizer called on its own, between changes of the index           *)
(***************************************************************************)
MaxTextLen == 3
TextChars == {"t", "h", "e", "T", " ", "!", "_"}

RECURSIVE TextsOfLen(_)
TextsOfLen(n) ==
  IF n = 0 THEN {<<>>}
  ELSE {Append(t, c) : t \in TextsOfLen(n - 1), c \in TextChars}

TheTeeE == <<"T","h","e"," ","t","e","e","!","e">>
TokenTexts == UNION {TextsOfLen(n) : n \in 0..MaxTextLen} \cup {TheTeeE, MilkTea}

TokenizeStep(text, tokens) ==
  [op |-> "tokenize", id |-> 0, D |-> EmptyMap, S |-> EmptyMap,
   text |-> text, tokens |-> tokens, idx |-> idx,
   earlier |-> IF last.op = "tokenize" /\ last.text = text
               THEN <<last.tokens>> ELSE <<>>]

\* this.tokenize(text): nothing but the returned list
Tokenize(text) ==
  /\ last' = TokenizeStep(text, tokenize(text))
  /\ UNCHANGED <<now, registry, idx, session, durable, tasks, open, uiText,
                 inputTimer, used, removed, lastLocal, second>>
  /\ UNCHANGED debounceVars
  /\ UNCHANGED authVars

TokenizeNext ==
  \/ \E n \in SearchNotes : IndexNote(NotepadData(1, n.content, n.tags, 0))
  \/ \E text \in TokenTexts : Tokenize(text)

SpecTokenize == IndexInit /\ [][TokenizeNext]_vars

(***************************************************************************)
(* A document saved to Firestore and read back, and the index rebuilt on a *)
(* page whose session cache may hold no copy of it.  lastLocal keeps the   *)
(* document as it was handed to saveNotepad.                               *)
(***************************************************************************)
\* FirebaseNotepadService.saveNotepad, then getAllNotepads
SaveThenLoad(notepad) ==
  LET saved == saveNotepad(currentUser, firestore, notepad, TRUE)
      loaded == loadAllNotepads(currentUser, saved.firestore, TRUE)
  IN  /\ firestore' = saved.firestore
      /\ lastLocal' = Put(lastLocal, notepad.id, notepad)
      /\ last' = [Step("saveThenLoad", notepad.id) EXCEPT !.D = loaded.value]
      /\ UNCHANGED <<now, registry, idx, session, durable, tasks, open, uiText,
                     inputTimer, used, removed, second,
                     currentUser, authListener, startupTimer, author>>
      /\ UNCHANGED debounceVars

\* reloadSearchIndexFromStorage of the signed-in user
ReloadFromFirestore ==
  LET notepadMap == loadAllNotepads(currentUser, firestore, TRUE).value
  IN  /\ SetSt(reloadBody([St EXCEPT !.idx = clearSearchIndex(@)], notepadMap, now))
      /\ last' = RunStep("reloadFromFirestore", notepadMap, session)
      /\ UNCHANGED <<now, durable, tasks, open, inputTimer, used, removed,
                     lastLocal, second>>
      /\ UNCHANGED debounceVars
      /\ UNCHANGED authVars

RoundTripNext ==
  \/ \E id \in NoteIds, content \in ContentChoices, tags \in IndexTags :
       SaveThenLoad(NotepadData(id, content, tags, now))
  \/ ReloadFromFirestore

SpecRoundTrip == IndexInit /\ [][RoundTripNext]_vars

(***************************************************************************)
(* Reopening a listed note.  The page starts as in Init; the user reopens  *)
(* notes of the sidebar list, edits and closes them while Firestore        *)
(* rejects writes, so the session copy and the durable copy can differ.    *)
(* lastLocal keeps, per reopened id, the content of the merged copy.       *)
(***************************************************************************)
Reopening(id) == \E tk \in InFlight : tk.kind = "reopen" /\ tk.id = id

MergedContent(id) == combineNotes(getAllNotepads(durable), session)[id].content

\* reopenNotepad -> new Notepad({id}): the constructor up to the await of
\* loadFromStorageIfExists
ReopenNotepad(id) ==
  /\ id \notin open
  /\ Has(durable, id)
  /\ HasRoom
  /\ LET st == IF Has(registry, id) THEN St
               ELSE hookedCreateNotepad(St, id, [content |-> <<>>], now)
     IN  SetSt([st EXCEPT !.uiText = Put(st.uiText, id, st.registry[id].content)])
  /\ open' = open \cup {id}
  /\ tasks' = With(tasks, Task("reopen", "load", id, NoDoc, EmptyMap, "reopen"))
  /\ lastLocal' = Put(lastLocal, id, MergedContent(id))
  /\ last' = Step("reopen", id)
  /\ UNCHANGED <<now, durable, inputTimer, used, removed>>
  /\ UNCHANGED second
  /\ UNCHANGED debounceVars
  /\ UNCHANGED authVars

\* loadFromStorageIfExists after its await: the stored document, if there is
\* one, goes through stateManager.updateNotepad (hooked) and into the text area
ReopenLoadReturns(tk) ==
  /\ tk.kind = "reopen" /\ tk.pc = "load"
  /\ LET allNotepads == getAllNotepads(durable)
     IN  IF Has(allNotepads, tk.id)
         THEN SetSt(hookedUpdateNotepad(St, tk.id,
                      [content |-> allNotepads[tk.id].content], now))
         ELSE UNCHANGED <<registry, idx, session, uiText>>
  /\ tasks' = Without(tk)
  /\ last' = Step("reopened", tk.id)
  /\ UNCHANGED <<now, durable, open, inputTimer, used, removed, lastLocal>>
  /\ UNCHANGED second
  /\ UNCHANGED debounceVars
  /\ UNCHANGED authVars

\* loadAllNotepads throws: the catch of loadFromStorageIfExists logs it
ReopenLoadFails(tk) ==
  /\ tk.kind = "reopen" /\ tk.pc = "load"
  /\ tasks' = Without(tk)
  /\ last' = Step("reopenFailed", tk.id)
  /\ UNCHANGED <<now, registry, idx, session, durable, open, uiText,
                 inputTimer, used, removed, lastLocal>>
  /\ UNCHANGED second
  /\ UNCHANGED debounceVars
  /\ UNCHANGED authVars

\* handleContentChange while Firestore rejects the write: the hooked
\* updateNotepad, then the catch of the failed save
EditWhileOffline(id, text) ==
  /\ id \in open
  /\ Has(registry, id)
  /\ registry[id].content # text
  /\ SetSt(hookedUpdateNotepad(St, id, [content |-> text], now))
  /\ lastLocal' = IF Reopening(id) THEN Put(lastLocal, id, text) ELSE lastLocal
  /\ last' = Step("update", id)
  /\ UNCHANGED <<now, durable, tasks, open, inputTimer, used, removed>>
  /\ UNCHANGED second
  /\ UNCHANGED debounceVars
  /\ UNCHANGED authVars

\* handleClose while Firestore rejects the write and the delete: destroy
CloseWhileOffline(id) ==
  /\ id \in open
  /\ open' = open \ {id}
  /\ SetSt(hookedDeleteNotepad(St, id))
  /\ removed' = removed \cup {id}
  /\ last' = Step("destroy", id)
  /\ UNCHANGED <<now, durable, tasks, inputTimer, used, lastLocal>>
  /\ UNCHANGED second
  /\ UNCHANGED debounceVars
  /\ UNCHANGED authVars

ReopenNext ==
  \/ Tick
  \/ \E tk \in InFlight : LoadReturns(tk)
  \/ \E tk \in InFlight : StartupCompletes(tk)
  \/ \E id \in NoteIds : ReopenNotepad(id)
  \/ \E tk \in InFlight : ReopenLoadReturns(tk)
  \/ \E tk \in InFlight : ReopenLoadFails(tk)
  \/ \E id \in NoteIds, text \in ContentChoices : EditWhileOffline(id, text)
  \/ \E id \in NoteIds : CloseWhileOffline(id)

SpecReopen == Init /\ [][ReopenNext]_vars

(***************************************************************************)
(* Overlapping reload runs.  The user reopens the stored note and saves it *)
(* repeatedly (each hooked save ends in reloadSearchIndexFromStorage);     *)
(* another device of the same user writes to and deletes from the user's   *)
(* Firestore collection.  The other device acts only while some run has    *)
(* yet to read the collection, so that the last read of a settled page     *)
(* always saw the collection as it is.                                     *)
(***************************************************************************)
YetToRead == \E tk \in InFlight : tk.kind = "save" /\ tk.pc \in {"write", "ack", "load"}

\* setDoc from another device
OtherDeviceSaves(id) ==
  /\ YetToRead
  /\ ~Has(durable, id)
  /\ durable' = Put(durable, id, [content |-> Milk, lastModified |-> now])
  /\ last' = Step("otherSave", id)
  /\ UNCHANGED <<now, registry, idx, session, tasks, open, uiText,
                 inputTimer, used, removed, lastLocal, second>>
  /\ UNCHANGED debounceVars
  /\ UNCHANGED authVars

\* deleteDoc from another device
OtherDeviceDeletes(id) ==
  /\ YetToRead
  /\ Has(durable, id)
  /\ durable' = Del(durable, id)
  /\ last' = Step("otherDelete", id)
  /\ UNCHANGED <<now, registry, idx, session, tasks, open, uiText,
                 inputTimer, used, removed, lastLocal, second>>
  /\ UNCHANGED debounceVars
  /\ UNCHANGED authVars

OverlapNext ==
  \/ \E tk \in InFlight : LoadReturns(tk)
  \/ \E tk \in InFlight : StartupCompletes(tk)
  \/ \E id \in NoteIds : ReopenNotepad(id)
  \/ \E tk \in InFlight : ReopenLoadReturns(tk)
  \/ \E id \in NoteIds : HandleMinimize(id)
  \/ \E tk \in InFlight : WriteLands(tk)
  \/ \E tk \in InFlight : SaveResumes(tk)
  \/ \E tk \in InFlight : ReloadCompletes(tk)
  \/ \E id \in NoteIds : OtherDeviceSaves(id)
  \/ \E id \in NoteIds : OtherDeviceDeletes(id)

SpecOverlap == Init /\ [][OverlapNext]_vars

(***************************************************************************)
(* Properties                                                              *)
(***************************************************************************)
RunDone == {"startupDone", "reloadDone", "forceDone"}

\* every id that occurs in a posting set of the index
PostedIds(index) == UNION {index[k] : k \in DOMAIN index}

\* the id is in the document map or in a posting set: some search can return it
Findable(id) ==
  \/ Has(idx.notes, id)
  \/ id \in PostedIds(idx.searchIndex)
  \/ id \in PostedIds(idx.tagIndex)

\* C1: when a reconciliation run has completed on the durable snapshot D and the
\* session cache S, the index holds one document for every id of D or S, with the
\* content and tags of S's copy when S has the id and of D's copy otherwise; the
\* startup run, which clears as it completes, leaves no other id indexed.
SessionWinsMerge ==
  last.op \in RunDone =>
    /\ \A id \in (DOMAIN last.D) \cup (DOMAIN last.S) :
         LET copy == IF id \in DOMAIN last.S THEN last.S[id] ELSE last.D[id]
         IN  /\ Has(idx.notes, id)
             /\ idx.notes[id].content = copy.content
             /\ idx.notes[id].tags = copy.tags
    /\ last.op = "startupDone" =>
         DOMAIN idx.notes = (DOMAIN last.D) \cup (DOMAIN last.S)

\* a reload completed on a snapshot whose copy of a note differs from the session's
SessionWinsMergeWitness ==
  /\ last.op = "reloadDone"
  /\ \E id \in (DOMAIN last.D) \cap (DOMAIN last.S) :
       /\ last.D[id].content # last.S[id].content
       /\ idx.notes[id].content = last.S[id].content

\* C2: an id deleted through stateManager.deleteNotepad is never in the index again.
RemovedIsTerminal == \A id \in removed : ~Has(idx.notes, id)

\* C3: right after stateManager.deleteNotepad(id) the session cache has no entry for id.
DeletePurgesSession == last.op = "destroy" => ~Has(session, last.id)

\* C4: once a deletion has returned (a destroyed notepad's stateManager.deleteNotepad,
\* or the sidebar's storageService.deleteNotepad), no search can return the id.
DeletedIsUnfindable ==
  last.op \in {"destroy", "sidebarDeleted"} => ~Findable(last.id)

\* C5: every id in a posting set of the word index or of the tag index is a key of
\* the document map.
PostingsWithinNotes ==
  PostedIds(idx.searchIndex) \cup PostedIds(idx.tagIndex) \subseteq DOMAIN idx.notes

\* a note was removed while another keeps postings in both indexes
PostingsWithinNotesWitness ==
  /\ last.op = "removeNote"
  /\ ~Has(idx.notes, last.id)
  /\ PostedIds(idx.searchIndex) # {}
  /\ PostedIds(idx.tagIndex) # {}

\* C6: on return of a hooked createNotepad or updateNotepad the index's document and
\* the session-cache entry of the id both equal the record the registry returned.
WriteThrough ==
  last.op \in {"create", "update"} =>
    /\ Has(registry, last.id)
    /\ Has(idx.notes, last.id) /\ idx.notes[last.id] = registry[last.id]
    /\ Has(session, last.id) /\ session[last.id] = registry[last.id]

\* an update with typed text returned while its durable write is still in flight
WriteThroughWitness ==
  /\ last.op = "update"
  /\ registry[last.id].content = Milk
  /\ idx.notes[last.id] = registry[last.id]
  /\ session[last.id] = registry[last.id]
  /\ \E tk \in InFlight : tk.kind = "save" /\ tk.pc = "write" /\ tk.id = last.id

RunBegins ==
  \E tk \in BagToSet(tasks') :
    /\ tk.kind \in {"save", "force"}
    /\ tk.pc = "load"
    /\ CopiesIn(tk, tasks') > CopiesIn(tk, tasks)

\* C8: the step in which a reconciliation run clears a populated index also
\* repopulates it: it does not leave the index empty while the durable store or the
\* session cache holds a note.
ClearAndRefillInOneStep ==
  [][(RunBegins /\ DOMAIN idx.notes # {}) =>
       ((DOMAIN durable' \cup DOMAIN session' # {}) => DOMAIN idx'.notes # {})]_vars

\* a reconciliation is pending in this step for a write that has just landed
RunPending ==
  \E tk \in BagToSet(tasks') :
    /\ tk.kind = "save"
    /\ tk.pc = "ack"
    /\ CopiesIn(tk, tasks') > CopiesIn(tk, tasks)

\* C9: every step in which a durable write takes effect (a save or a delete changes
\* the durable store) leaves one reconciliation run pending for it, and no step in
\* which a write fails does.
EveryWriteReconciled ==
  [][/\ (durable' # durable) => RunPending
     /\ (BagCardinality(tasks') < BagCardinality(tasks) /\ durable' = durable)
          => ~RunPending]_vars

\* nothing is pending: no timer armed, no write, load or run in flight
Quiescent == tasks = EmptyBag /\ inputTimer = {}

\* C10: with the durable store answering every request, once nothing is pending
\* the indexed ids are those of durable store and session cache together and every
\* indexed document is the session-wins copy.
QuiescentIsConsistent ==
  Quiescent =>
    /\ DOMAIN idx.notes = (DOMAIN durable) \cup (DOMAIN session)
    /\ \A id \in DOMAIN idx.notes :
         LET copy == IF Has(session, id) THEN session[id]
                     ELSE FromFirestore(id, durable[id])
         IN  /\ idx.notes[id].content = copy.content
             /\ idx.notes[id].tags = copy.tags

\* the queries typed into the search box
Queries == {Milk, <<"t","e","a">>, <<"T","e","a","!">>, <<"#","W","k">>, <<"w">>}

ContentSearch(query, caseSensitive) ==
  search(idx, SearchOptions(query, TRUE, FALSE, caseSensitive, FALSE))

TagSearch(query, exactMatch) ==
  search(idx, SearchOptions(query, FALSE, TRUE, FALSE, exactMatch))

\* the tokens of the documents of D, and the tags they carry (lower-cased)
TokensOf(D) == UNION {Range(tokenize(D[id].content)) : id \in DOMAIN D}
TagsOf(D) == UNION {{ToLowerCase(D[id].tags[k]) : k \in DOMAIN D[id].tags} : id \in DOMAIN D}

\* what searchByTags looks up for a query
QueryTag(query) == ToLowerCase(StripHashes(query))

\* C11 as stated: after a rebuild from D, a content search for a token that occurs
\* in no document of D and a tag search for a tag that no document of D carries
\* both return nothing.
NoStaleAfterRebuildAsStated ==
  last.op = "rebuild" =>
    \A q \in Queries :
      /\ (Range(tokenize(q)) \cap TokensOf(last.D) = {})
           => \A cs \in BOOLEAN : ContentSearch(q, cs) = <<>>
      /\ (QueryTag(q) \notin TagsOf(last.D))
           => \A exact \in BOOLEAN : TagSearch(q, exact) = <<>>

\* C11 (amended): after a rebuild from D, a content search for a token that occurs
\* in no document of D returns nothing, and a tag search returns nothing when no
\* tag carried by a document of D contains the query (with exactMatch: equals it).
NoStaleAfterRebuild ==
  last.op = "rebuild" =>
    \A q \in Queries :
      /\ (Range(tokenize(q)) \cap TokensOf(last.D) = {})
           => \A cs \in BOOLEAN : ContentSearch(q, cs) = <<>>
      /\ (QueryTag(q) \notin TagsOf(last.D)) => TagSearch(q, TRUE) = <<>>
      /\ (\A t \in TagsOf(last.D) : ~Includes(t, QueryTag(q)))
           => TagSearch(q, FALSE) = <<>>

\* a rebuild from a non-empty set dropped a word and a tag that were posted before
NoStaleAfterRebuildWitness ==
  /\ last.op = "rebuild"
  /\ DOMAIN last.D # {}
  /\ <<"t","e","a">> \in last.S.words \ TokensOf(last.D)
  /\ <<"t","e","a","!">> \in last.S.tags \ TagsOf(last.D)
  /\ ContentSearch(<<"t","e","a">>, FALSE) = <<>>
  /\ TagSearch(<<"T","e","a","!">>, FALSE) = <<>>
  /\ ContentSearch(Milk, FALSE) # <<>>

\* the durable fetch of a run of one of these kinds fails in this step: its load was
\* in flight and is gone without having returned a snapshot
FetchFails(kinds) ==
  \E tk \in BagToSet(tasks) :
    /\ tk.kind \in kinds
    /\ tk.pc = "load"
    /\ CopiesIn(tk, tasks') < CopiesIn(tk, tasks)
    /\ ~\E got \in BagToSet(tasks') :
          /\ got.kind = tk.kind /\ got.id = tk.id /\ got.pc = "loaded"
          /\ CopiesIn(got, tasks') > CopiesIn(got, tasks)

\* a run is armed to be attempted again
RetryArmed ==
  \E tk \in BagToSet(tasks') :
    /\ tk.pc \in {"retry", "load"}
    /\ CopiesIn(tk, tasks') > CopiesIn(tk, tasks)

\* C12: whenever the durable fetch of the startup run or of a reload after a save
\* fails, the run is armed to be attempted again.
FailedFetchIsRetried ==
  [][FetchFails({"startup", "save"}) => RetryArmed]_vars

\* C13: when the durable fetch of a reconciliation run fails, every document of the
\* session cache (not deleted through stateManager.deleteNotepad) is in the index.
FailedFetchKeepsCached ==
  [][FetchFails({"startup", "save", "force"}) =>
       \A id \in (DOMAIN session') \ removed' : Has(idx'.notes, id)]_vars

\* the durable write of a save fails in this step: it was in flight and is gone
\* without having landed
WriteFailsFor(id) ==
  \E tk \in BagToSet(tasks) :
    /\ tk.kind = "save" /\ tk.id = id /\ tk.pc = "write"
    /\ CopiesIn(tk, tasks') < CopiesIn(tk, tasks)
    /\ ~\E got \in BagToSet(tasks') :
          /\ got.kind = "save" /\ got.id = id /\ got.pc = "ack"
          /\ CopiesIn(got, tasks') > CopiesIn(got, tasks)

\* C14: when the durable write of a save fails, a write of that document is pending
\* afterwards (the retry, or a later save of the same document).
FailedSaveIsRetried ==
  [][\A id \in NoteIds :
       WriteFailsFor(id) =>
         \E tk \in BagToSet(tasks') :
           tk.kind = "save" /\ tk.id = id /\ tk.pc = "write"]_vars

\* Both SearchIntegrations' indexes agree with what the session's notes are:
\* every merged note is indexed with its merged content
Holds(index, id) ==
  /\ id \in DOMAIN index.notes
  /\ Has(registry, id) => index.notes[id].content = registry[id].content

\* C15: with the interception installed a second time, one createNotepad or
\* updateNotepad still writes the session cache once and leaves the note in
\* every SearchManager, one deleteNotepad leaves it in none, and one
\* saveNotepad runs one reload after which every SearchManager holds the note.
InstallTwiceIsIdempotent ==
  (second # NoIndex /\ last.op \in {"create", "update", "delete", "save"}) =>
     /\ last.op \in {"create", "update"} =>
          /\ last.calls.session = 1
          /\ Holds(idx, last.id) /\ Holds(second, last.id)
     /\ last.op = "delete" =>
          /\ last.id \notin DOMAIN idx.notes
          /\ last.id \notin DOMAIN second.notes
     /\ last.op = "save" =>
          /\ last.calls.runs = 1
          /\ Holds(idx, last.id) /\ Holds(second, last.id)

\* C16: per id, the calls of a burst (each before the previous call's timer
\* fires) issue no write while the last call's timer is armed and exactly one
\* write, of the last call's document, once it has fired; and a call for one id
\* leaves the armed timers of the other ids as they are.
TrailingEdgePerId ==
  /\ \A id \in DOMAIN burst :
       IF BurstOver(id) THEN burst[id].writes = <<burst[id].notepad>>
       ELSE burst[id].writes = <<>>
  /\ last.op = "debouncedSave" =>
       \A id \in NoteIds \ {last.id} : Cardinality(TimersOf(id)) <= 1

\* C17: at most one timer is armed per id, and the document a firing timer
\* hands to the write is the one of the latest debouncedSave for its id.
OneArmedTimerPerId ==
  /\ \A id \in NoteIds : Cardinality(TimersOf(id)) <= 1
  /\ last.op = "fire" => last.D = last.S

\* C18: when the page has just been refreshed the session cache is empty.
RefreshEmptiesSessionCache == last.op = "refresh" => session = EmptyMap

\* C19: indexNote(d) right after indexNote(d) leaves the document map, the word
\* index and the tag index as the first call left them.
IndexNoteIsIdempotent ==
  last.op = "indexNote" => indexNote(idx, idx.notes[last.id]) = idx

\* a note with words and tags was indexed over an earlier version of itself,
\* sharing a word with another note
IndexNoteIsIdempotentWitness ==
  /\ last.op = "indexNote"
  /\ Has(last.D, last.id)
  /\ last.D[last.id] # idx.notes[last.id]
  /\ idx.notes[last.id].tags # <<>>
  /\ \E w \in DOMAIN idx.searchIndex :
       last.id \in idx.searchIndex[w] /\ idx.searchIndex[w] # {last.id}

\* the note indexNote has just replaced, and what it was replaced by
Before == last.D[last.id]
After == idx.notes[last.id]
Reindexed ==
  /\ last.op = "indexNote"
  /\ Has(last.D, last.id)
  /\ (Before.tags # After.tags \/ Before.content # After.content)
TagKeys(note) == {ToLowerCase(note.tags[k]) : k \in DOMAIN note.tags}
TokenKeys(note) == Range(tokenize(note.content))
Found(results) == {results[k].id : k \in DOMAIN results}

\* d.id is posted under exactly the tags and tokens of the new version
PostedAsNewVersion ==
  /\ TagKeys(After) \subseteq DOMAIN idx.tagIndex
  /\ TokenKeys(After) \subseteq DOMAIN idx.searchIndex
  /\ \A t \in DOMAIN idx.tagIndex : last.id \in idx.tagIndex[t] <=> t \in TagKeys(After)
  /\ \A w \in DOMAIN idx.searchIndex :
       last.id \in idx.searchIndex[w] <=> w \in TokenKeys(After)

\* C20 as stated: after indexNote(d) over a changed earlier version, d.id is
\* posted under the tags and tokens of the new version and no others, a tag
\* query for a dropped tag does not return d.id and one for a new tag does.
PurgeBeforeInsertAsStated ==
  Reindexed =>
    /\ PostedAsNewVersion
    /\ \A t \in TagKeys(Before) \ TagKeys(After) : \A exact \in BOOLEAN :
         /\ last.id \notin Found(TagSearch(t, exact))
         /\ last.id \notin {n.id : n \in getNotesByTag(idx, t)}
    /\ \A t \in TagKeys(After) : \A exact \in BOOLEAN :
         /\ last.id \in Found(TagSearch(t, exact))
         /\ last.id \in {n.id : n \in getNotesByTag(idx, t)}

\* C20 (amended): as above, except that a tag search without exactMatch for a
\* dropped tag returns d.id exactly when a tag of the new version contains it.
PurgeBeforeInsert ==
  Reindexed =>
    /\ PostedAsNewVersion
    /\ \A t \in TagKeys(Before) \ TagKeys(After) :
         /\ last.id \notin Found(TagSearch(t, TRUE))
         /\ last.id \notin {n.id : n \in getNotesByTag(idx, t)}
         /\ last.id \in Found(TagSearch(t, FALSE))
              <=> \E c \in TagKeys(After) : Includes(c, t)
    /\ \A t \in TagKeys(After) : \A exact \in BOOLEAN :
         /\ last.id \in Found(TagSearch(t, exact))
         /\ last.id \in {n.id : n \in getNotesByTag(idx, t)}

\* a note lost a tag and a word and gained others, next to a note that keeps them
PurgeBeforeInsertWitness ==
  /\ Reindexed
  /\ TagKeys(Before) \ TagKeys(After) # {}
  /\ TagKeys(After) \ TagKeys(Before) # {}
  /\ TokenKeys(Before) \ TokenKeys(After) # {}
  /\ \E other \in DOMAIN idx.notes \ {last.id} :
       /\ TagKeys(idx.notes[other]) \cap (TagKeys(Before) \ TagKeys(After)) # {}
       /\ TokenKeys(idx.notes[other]) \cap (TokenKeys(Before) \ TokenKeys(After)) # {}

\* C21: the list search returns holds every id at most once.
ResultsHaveDistinctIds ==
  last.op = "search" =>
    \A j, k \in DOMAIN last.results :
      last.results[j].id = last.results[k].id => j = k

\* the result for an id, when the list holds one
Results == last.results
ResultOf(id) == Results[CHOOSE k \in DOMAIN Results : Results[k].id = id]
Searched == last.op = "search" /\ ~IsBlank(last.options.query)
\* the query as search hands it on
GivenQuery ==
  IF last.options.caseSensitive THEN last.options.query
  ELSE ToLowerCase(last.options.query)
\* the notes a tag search alone, and a content search alone, find for the query
TagOnly == searchByTags(idx, GivenQuery, last.options)
ContentOnly == searchByContent(idx, GivenQuery, last.options, {})
ScoreIn(results, id) ==
  results[CHOOSE k \in DOMAIN results : results[k].id = id].relevanceScore

\* C22: with tags and content both searched, a note matching by tag and by
\* content is returned as 'both' with the larger of its two scores.
BothMatchesAreMerged ==
  (Searched /\ last.options.searchTags /\ last.options.searchContent) =>
    \A id \in Found(TagOnly) \cap Found(ContentOnly) :
      /\ id \in Found(Results)
      /\ ResultOf(id).matchType = "both"
      /\ RatEq(ResultOf(id).relevanceScore,
               RatMax(ScoreIn(TagOnly, id), ScoreIn(ContentOnly, id)))

\* C23: along the list search returns the score never increases, and between
\* neighbours of equal score lastModified never increases.
ResultsAreOrdered ==
  last.op = "search" =>
    \A k \in 1..(Len(Results) - 1) :
      /\ ~RatLess(Results[k].relevanceScore, Results[k + 1].relevanceScore)
      /\ RatEq(Results[k].relevanceScore, Results[k + 1].relevanceScore)
           => Results[k].lastModified >= Results[k + 1].lastModified

\* a list of two notes of equal score, the newer one indexed under the larger id
EqualScoresWitness ==
  /\ last.op = "search" /\ Len(Results) = 2
  /\ Results[1].id # Results[2].id
  /\ RatEq(Results[1].relevanceScore, Results[2].relevanceScore)
  /\ Results[1].lastModified > Results[2].lastModified
  /\ Results[1].id > Results[2].id

\* the words of the query, the notes posted under one of them, and the score
\* calculateContentRelevance computes for such a note
QueryWords == tokenize(GivenQuery)
Candidates ==
  {id \in DOMAIN idx.notes :
     \E k \in DOMAIN QueryWords :
       /\ QueryWords[k] \in DOMAIN idx.searchIndex
       /\ id \in idx.searchIndex[QueryWords[k]]}
MatchCount(id) ==
  Cardinality({k \in DOMAIN QueryWords :
                 /\ QueryWords[k] \in DOMAIN idx.searchIndex
                 /\ id \in idx.searchIndex[QueryWords[k]]})
Computed(id) ==
  calculateContentRelevance(idx.notes[id].content, GivenQuery,
                            MatchCount(id), Len(QueryWords))
AtMostFloor(score) == ~RatLess(Rat(1, 10), score)

\* C24: a result of content matching has a score above 0.1 and at most 1.0,
\* and a content search returns no note whose computed score is 0.1 or less.
ContentScoresAboveFloor ==
  Searched =>
    /\ \A k \in DOMAIN Results :
         Results[k].matchType = "content" =>
           /\ RatLess(Rat(1, 10), Results[k].relevanceScore)
           /\ ~RatLess(Rat(1, 1), Results[k].relevanceScore)
    /\ (last.options.searchContent /\ ~last.options.searchTags) =>
         \A id \in Candidates : AtMostFloor(Computed(id)) => id \notin Found(Results)

\* a content search with one candidate at the floor and left out, and another
\* returned with a score below 1.0
ContentScoresAboveFloorWitness ==
  /\ Searched /\ last.options.searchContent /\ ~last.options.searchTags
  /\ \E id \in Candidates : AtMostFloor(Computed(id)) /\ id \notin Found(Results)
  /\ \E k \in DOMAIN Results :
       /\ Results[k].matchType = "content"
       /\ RatLess(Results[k].relevanceScore, Rat(1, 1))

\* the tags of a note that a tag search for the query matches
MatchingTags(id) ==
  {t \in TagKeys(idx.notes[id]) :
     IF last.options.exactMatch THEN t = QueryTag(GivenQuery)
     ELSE Includes(t, QueryTag(GivenQuery))}
\* 1.0 for the tag that equals the query, 0.9 for one that starts with it, else 0.7
TagScore(tag, queryTag) ==
  IF tag = queryTag THEN Rat(10, 10)
  ELSE IF StartsWith(tag, queryTag) THEN Rat(9, 10)
  ELSE Rat(7, 10)

\* C25: a note matched through a tag is returned with 1.0 when that tag equals
\* the normalized query, with or without exactMatch, with 0.9 when the tag only
\* starts with the query and with 0.7 when it only contains it.
TagScoresByKindOfMatch ==
  (Searched /\ last.options.searchTags /\ ~last.options.searchContent) =>
    \A id \in DOMAIN idx.notes : \A t \in MatchingTags(id) :
      \E k \in DOMAIN Results :
        /\ Results[k].id = id
        /\ RatEq(Results[k].relevanceScore, TagScore(t, QueryTag(GivenQuery)))

\* the query occurs in the content: letter for letter when caseSensitive, else
\* whatever the case
OccursIn(content, query, caseSensitive) ==
  IF caseSensitive THEN Includes(content, query)
  ELSE Includes(ToLowerCase(content), ToLowerCase(query))
\* the content score with the bonus added when bonus holds
ScoreWithBonus(content, query, matchCount, totalQueryWords, bonus) ==
  LET base == Rat(10 * matchCount + (IF bonus THEN 3 * totalQueryWords ELSE 0),
                  10 * totalQueryWords)
      byLength == IF Len(content) > 500
                  THEN Rat(base.num * 500, base.den * Len(content)) ELSE base
      byQuery == IF Len(query) > 0 /\ Len(content) > 0 /\ 10 * Len(query) < Len(content)
                 THEN Rat(byLength.num * 10 * Len(query), byLength.den * Len(content))
                 ELSE byLength
  IN  IF RatLess(Rat(1, 1), byQuery) THEN Rat(1, 1) ELSE byQuery

\* C26: the score of a content result includes the phrase bonus exactly when
\* the query occurs in the content, with identical case under caseSensitive.
PhraseBonusFollowsCase ==
  (Searched /\ last.options.searchContent /\ ~last.options.searchTags) =>
    \A k \in DOMAIN Results :
      RatEq(Results[k].relevanceScore,
            ScoreWithBonus(Results[k].content, GivenQuery,
                           MatchCount(Results[k].id), Len(QueryWords),
                           OccursIn(Results[k].content, GivenQuery,
                                    last.options.caseSensitive)))

BlankQueries == {<<>>, <<" ">>}

\* C27: a search for an empty or blank query returns the empty list, whatever
\* the index and the options, and leaves the index as it was.
BlankQueryFindsNothing ==
  [][(last'.op = "search" /\ last'.options.query \in BlankQueries)
       => (last'.results = <<>> /\ idx' = idx)]_vars

\* a blank query was searched by tags and content in an index of two tagged notes
BlankQueryFindsNothingWitness ==
  /\ last.op = "search"
  /\ last.options.query \in BlankQueries
  /\ last.options.searchTags /\ last.options.searchContent
  /\ Cardinality(DOMAIN idx.notes) = 2
  /\ DOMAIN idx.tagIndex # {}
  /\ last.results = <<>>

\* C28: the step that completes a reconciliation run leaves every document of
\* the merged set in the registry and every record the registry held as it was.
RunMaterializesMergedSet ==
  [][last'.op \in RunDone =>
       /\ \A id \in DOMAIN combineNotes(last'.D, last'.S) : Has(registry', id)
       /\ \A id \in DOMAIN registry :
            Has(registry', id) /\ registry'[id] = registry[id]]_vars

\* C29: after a reload every document of the merged set is indexed: one without
\* a content field with empty content, under its tags; every other one with its
\* content, under its words and tags.
AnyShapeIsIndexed ==
  last.op = "reloadAnyShape" =>
    \A id \in DOMAIN last.D :
      /\ Has(idx.notes, id)
      /\ idx.notes[id].content = (IF HasContent(last.D[id]) THEN last.D[id].content ELSE <<>>)
      /\ \A t \in TagKeys(last.D[id]) :
           t \in DOMAIN idx.tagIndex /\ id \in idx.tagIndex[t]
      /\ HasContent(last.D[id]) =>
           \A w \in TokenKeys(last.D[id]) :
             w \in DOMAIN idx.searchIndex /\ id \in idx.searchIndex[w]

\* the notes of another user than the one signed in
OfAnotherUser(id) == Has(author, id) /\ author[id] \in Users \ {currentUser}
UserRuns == {"signInLoad", "timerLoad", "saveReload"}

\* C30: while a user is signed in, a search returns no note created by another
\* user, and the index and the registry a reconciliation run leaves hold none.
NoCrossUserVisibility ==
  currentUser # NoUser =>
    /\ \A id \in Found(search(idx, SearchOptions(Milk, TRUE, TRUE, FALSE, FALSE))) :
         ~OfAnotherUser(id)
    /\ last.op \in UserRuns =>
         \A id \in DOMAIN combineNotes(last.D, last.S) : ~OfAnotherUser(id)

StorageWrites == {"saveNotepad", "saveAllNotepads", "deleteNotepad"}
StorageOps == StorageWrites \cup {"loadAllNotepads"}
CalledSignedOut == last.op \in StorageOps /\ last.user = NoUser

\* C31: a save, batch save or delete called while nobody is signed in rejects
\* with 'Authentication required' and leaves every collection as it was; a
\* load called while nobody is signed in resolves to the empty map.
SignedOutCallsWriteNothing ==
  CalledSignedOut =>
    /\ firestore = last.before
    /\ last.op \in StorageWrites => last.result.outcome = AuthRequired
    /\ last.op = "loadAllNotepads" =>
         /\ last.result.outcome = Resolved
         /\ last.result.value = EmptyMap

SignedOutCallsWriteNothingWitness ==
  /\ CalledSignedOut
  /\ last.op = "saveNotepad"
  /\ \E u \in Users : last.before[u] # EmptyMap

\* the maximal runs of word characters of s, from left to right
RunStarts(s) ==
  {i \in DOMAIN s : IsWordChar(s[i]) /\ (i = 1 \/ ~IsWordChar(s[i - 1]))}
RunEnd(s, i) ==
  CHOOSE j \in i..Len(s) :
    /\ \A k \in i..j : IsWordChar(s[k])
    /\ j = Len(s) \/ ~IsWordChar(s[j + 1])
NthStart(s, k) ==
  CHOOSE i \in RunStarts(s) : Cardinality({j \in RunStarts(s) : j < i}) = k - 1
Runs(s) ==
  [k \in 1..Cardinality(RunStarts(s)) |-> SubSeq(s, NthStart(s, k), RunEnd(s, NthStart(s, k)))]
StatedTokens(text) ==
  SelectSeq(Runs(ToLowerCase(text)), LAMBDA w : Len(w) > 2 /\ w \notin StopWords)

\* C32: a call of tokenize returns the maximal word-character runs of the
\* lower-cased text, in order, without those of length <= 2 and without the
\* stop words; it leaves the index as it was, and a call on the same text as
\* the call before returns the same tokens.
TokenizeIsPure ==
  last.op = "tokenize" =>
    /\ last.tokens = StatedTokens(last.text)
    /\ idx = last.idx
    /\ last.earlier \in {<<>>, <<last.tokens>>}

\* a text with a stop word, a kept word and a short word, tokenized twice over a
\* filled index
TokenizeIsPureWitness ==
  /\ last.op = "tokenize"
  /\ last.text = TheTeeE
  /\ last.tokens = << <<"t","e","e">> >>
  /\ last.earlier # <<>>
  /\ idx.searchIndex # EmptyMap

\* C33: a document read back after its save equals the document saved, tags
\* included; and after a run in which the session cache held no copy of a
\* saved document, the document is found under each of its tags.
RoundTripKeepsTags ==
  /\ last.op = "saveThenLoad" =>
       /\ Has(last.D, last.id)
       /\ last.D[last.id] = lastLocal[last.id]
  /\ last.op = "reloadFromFirestore" =>
       \A id \in DOMAIN lastLocal \ DOMAIN last.S :
         \A k \in DOMAIN lastLocal[id].tags :
           id \in {n.id : n \in getNotesByTag(idx, lastLocal[id].tags[k])}

\* the step destroys the open notepad id while its text area holds text
ClosedWithText(id) == id \in open /\ id \notin open' /\ ~IsBlank(uiText[id])
DestroyDeletes(id) ==
  \E tk \in BagToSet(tasks') :
    /\ tk.kind = "delete" /\ tk.id = id /\ tk.caller = "destroy"
    /\ CopiesIn(tk, tasks') > CopiesIn(tk, tasks)

\* C34: a step that closes a notepad whose text area holds non-empty text issues
\* no delete of its durable record, and the durable record then holds that text.
CloseKeepsTypedText ==
  [][\A id \in NoteIds :
       ClosedWithText(id) =>
         /\ ~DestroyDeletes(id)
         /\ Has(durable', id)
         /\ durable'[id].content = uiText[id]]_vars

ReopenedNow(id) == last.op = "reopened" /\ last.id = id
HoldsMerged(notes, id) == Has(notes, id) => notes[id].content = lastLocal[id]

\* C35: while a note is being reopened and when its load has completed, the
\* session cache and the index hold for it only the content of the merged copy,
\* and on completion the registry holds that content.
ReopenPreservesContent ==
  \A id \in DOMAIN lastLocal :
    /\ (Reopening(id) \/ ReopenedNow(id)) =>
         /\ HoldsMerged(session, id)
         /\ HoldsMerged(idx.notes, id)
    /\ (ReopenedNow(id) /\ id \in open) =>
         /\ Has(registry, id)
         /\ registry[id].content = lastLocal[id]

\* a reload run has just completed and no other is under way
ReloadsSettled ==
  /\ last.op = "reloadDone"
  /\ ~\E tk \in InFlight : tk.kind = "save"

\* C36: once the overlapping reload runs have completed, the index holds the
\* session-wins merge of the durable store and the session cache as they are,
\* and no document that neither the durable store nor the session cache before
\* the last run held.
OverlappingReloadsConverge ==
  ReloadsSettled =>
    /\ idx.notes = combineNotes(getAllNotepads(durable), session)
    /\ DOMAIN idx.notes \subseteq DOMAIN durable \cup DOMAIN last.S

Pending(h) == Has(promises, h) /\ promises[h] = "pending"

\* C37: every promise returned by debouncedSave is eventually resolved or
\* rejected.
EveryPromiseSettles == \A h \in 1..MaxTimers : Pending(h) ~> ~Pending(h)

LoadedBy(run) == combineNotes(run.D, run.S)

\* C38: after a startup or reload run, the index and the registry hold for every
\* document the run loaded the lastModified of the copy it loaded.
RunsKeepTimestamps ==
  last.op \in {"startupDone", "reloadDone"} =>
    \A id \in DOMAIN LoadedBy(last) :
      /\ Has(idx.notes, id) =>
           idx.notes[id].lastModified = LoadedBy(last)[id].lastModified
      /\ Has(registry, id) =>
           registry[id].lastModified = LoadedBy(last)[id].lastModified

Posted(index, id) == {k \in DOMAIN index : id \in index[k]}

\* C39: for every document of the document map, the words it is posted under
\* are exactly the tokens of its content and the tags it is posted under are
\* exactly the lower-case forms of its tags; no posting set is empty; a document
\* of blank content is posted under no word.
IndexIsExact ==
  /\ \A id \in DOMAIN idx.notes :
       /\ Posted(idx.searchIndex, id) = TokenKeys(idx.notes[id])
       /\ Posted(idx.tagIndex, id) = TagKeys(idx.notes[id])
       /\ IsBlank(idx.notes[id].content) => Posted(idx.searchIndex, id) = {}
  /\ \A w \in DOMAIN idx.searchIndex : idx.searchIndex[w] # {}
  /\ \A t \in DOMAIN idx.tagIndex : idx.tagIndex[t] # {}

\* a document that had words was indexed again with whitespace-only content and
\* keeps its tag postings, next to a document with word postings
IndexIsExactWitness ==
  /\ last.op = "indexNote"
  /\ Has(last.D, last.id)
  /\ TokenKeys(last.D[last.id]) # {}
  /\ idx.notes[last.id].content = Spaces
  /\ Posted(idx.tagIndex, last.id) # {}
  /\ PostedIds(idx.searchIndex) # {}

====
